---- MODULE Spec2Model ----
(***************************************************************************)
(* DROID-Splat: the windowed bundle adjustment engine (src/geom/ba.py),    *)
(* its sparse accumulators, and the process orchestration of SLAM          *)
(* (src/slam.py) with the visualizer callbacks (src/visualization.py).     *)
(*                                                                         *)
(* Three specifications share the variables:                               *)
(*   SpecBA       one bundle_adjustment call on the keyframe store, with   *)
(*                the tracking stage appending frames concurrently;        *)
(*   SpecScatter  the scatter-add accumulators as pure functions;          *)
(*   SpecRun      SLAM.run: the orchestrator and its six worker processes. *)
(*                                                                         *)
(* Numbers: a disparity is an integer number of thousandths, so that the   *)
(* floor 0.001 of the clamp is 1.  A pose is an element of the 1-parameter *)
(* translation group (an integer), retraction is addition of the tangent   *)
(* update.  Memory utilization is an integer number of tenths.             *)
(***************************************************************************)
EXTENDS Integers, Sequences, FiniteSets, TLC

VARIABLES
    poses,      \* keyframe store: pose of every frame slot
    disps,      \* keyframe store: disparity (one pixel) of every frame slot
    scales,     \* keyframe store: scale of the depth prior, per frame
    shifts,     \* keyframe store: shift of the depth prior, per frame
    counter,    \* keyframe store: number of valid frames (video.counter)
    ba,         \* the bundle_adjustment call in progress
    sc,         \* the scatter-add call: inputs and result
    cfg,        \* SLAM: the configuration of the run
    pc,         \* SLAM: position of the orchestrator and of every worker
    reg,        \* SLAM: the value a worker has read for a pending "+= 1"
    cnt,        \* SLAM: the shared lifecycle counters and stage flags
    lock,       \* keyframe store: holder of video.get_lock(), or "free"
    dirty,      \* keyframe store: the frames whose dirty flag is set
    bk,         \* backend worker: self.backend and the safeguard's history
    mq,         \* SLAM.mapping_queue
    inq,        \* SLAM.input_pipe: the (image, depth) pairs in flight
    hand,       \* SLAM.run: the mapping handoff (a, last state, event)
    snap,       \* visualizer: dirty_index of the animation callback
    actors,     \* visualizer: per drawn frame, the numbers of camera and of
                \* point actors registered with the viewer
    frame,      \* tracking: number of stream frames consumed
    fed,        \* tracking: the timestamps passed to the frontend, in order
    killed,     \* SLAM.terminate: the processes terminated and joined, in order
    ev          \* eval_ate: the call, and the directories and files it made

storeVars == <<poses, disps, scales, shifts>>
baVars == <<poses, disps, scales, shifts, counter, ba>>
scVars == <<sc>>
evVars == <<ev>>
runVars == <<cfg, pc, reg, cnt, lock, dirty, bk, mq, inq, hand, snap, actors,
            frame, fed, killed>>
vars == <<poses, disps, scales, shifts, counter, ba, sc,
          cfg, pc, reg, cnt, lock, dirty, bk, mq, inq, hand, snap, actors,
          frame, fed, killed, ev>>

----------------------------------------------------------------------------
(* Bounds *)

NFrames == 3        \* frame slots of the keyframe store
MaxIters == 2       \* largest iteration count of a bundle_adjustment call
MaxEdges == 2       \* largest number of edges of a bundle_adjustment call
MaxPoses == 2       \* largest number of poses of a trajectory of eval_ate
ScLen == 2          \* largest number of entries of a scatter-add input
ScNodes == 2        \* largest node count n, m of a scatter-add call
StreamLen == 1      \* number of frames of the input stream
TrackLen == 3       \* largest number of frames of a stream given to tracking
MaxStamp == 2       \* largest timestamp of such a stream
VisLen == 2         \* number of frames of the stream shown by the visualizer

(* Program constants *)

DispFloor == 1      \* disps.clamp(min=0.001), in thousandths
MinRam == 5         \* ram_safeguard_backend(min_ram=0.5), in tenths
DefaultMaxRam == 9  \* cfg.get("max_ram_usage", 0.9), in tenths
RefinePasses == 2   \* the two dense_ba / loop_ba calls of global_ba

Frames == 0 .. (NFrames - 1)
\* The updates the linear solver may return for one block: the solver
\* (geom/chol.py) is outside this model, any of these may come back.
DeltaVals == {0 - 1, 0, 1}
\* The same for the scale and the shift of the prior.
PriorDeltaVals == {0, 1}

Max(a, b) == IF a >= b THEN a ELSE b

\* alpha, the weight of the prior term, as one unit.
Alpha == 1

\* The non-finite values of a float tensor entry, as reserved integers.
NaN == 9999
PosInf == 5000
NegInf == 0 - 5000

\* torch.isnan
IsNaN(x) == x = NaN

IsFinite(x) == x \notin {NaN, PosInf, NegInf}

\* IEEE-754 addition on the extended values.
ExtAdd(a, b) ==
    IF IsNaN(a) \/ IsNaN(b) THEN NaN
    ELSE IF IsFinite(a) /\ IsFinite(b) THEN a + b
    ELSE IF IsFinite(a) THEN b
    ELSE IF IsFinite(b) THEN a
    ELSE IF a = b THEN a ELSE NaN

\* What CholeskySolver.apply / LUSolver.apply may return for the pose
\* system: a finite update, a tensor holding a NaN, or a tensor holding an
\* infinity and no NaN.  With a zero right-hand side the solution of the
\* system is the zero update, unless the factorization fails.
SolverResults(rhs_zero) ==
    IF rhs_zero THEN {0, NaN} ELSE DeltaVals \cup {NaN, PosInf, NegInf}

----------------------------------------------------------------------------
(* Sparse accumulator (ba.py: 61-92)                                        *)

RECURSIVE SumOver(_, _)
\* Sum of f[e] over the finite set S of entries.
SumOver(f, S) ==
    IF S = {} THEN 0
    ELSE LET e == CHOOSE x \in S : TRUE IN f[e] + SumOver(f, S \ {e})

\* torch_scatter.scatter_sum(src, index, dim_size=size): out[index[e]] += src[e].
\* src and index are the selected entries (a set of positions E of the inputs).
\* An index outside [0, size) is an error of the kernel.
scatter_sum(src, index, E, size) ==
    IF \E e \in E : index[e] < 0 \/ index[e] >= size
    THEN [ok |-> FALSE, val |-> [k \in 0 .. (size - 1) |-> 0]]
    ELSE [ok |-> TRUE,
          val |-> [k \in 0 .. (size - 1) |->
                      SumOver(src, {e \in E : index[e] = k})]]

MaskMatNoUpper(ii, jj, n, m) ==
    {e \in DOMAIN ii : ii[e] >= 0 /\ jj[e] >= 0}

\* v = (ii >= 0) & (jj >= 0) & (ii < n) & (jj < m)
MaskMat(ii, jj, n, m) ==
    {e \in DOMAIN ii : ii[e] >= 0 /\ jj[e] >= 0 /\ ii[e] < n /\ jj[e] < m}

MaskVecNoUpper(ii, n) ==
    {e \in DOMAIN ii : ii[e] >= 0}

\* v = (ii >= 0) & (ii < n)
MaskVec(ii, n) ==
    {e \in DOMAIN ii : ii[e] >= 0 /\ ii[e] < n}

\* scatter_sum(A[:, v], ii[v] * m + jj[v], dim=1, dim_size=n * m)
safe_scatter_add_mat(A, ii, jj, n, m) ==
    scatter_sum(A, [e \in DOMAIN ii |-> ii[e] * m + jj[e]],
                MaskMat(ii, jj, n, m), n * m)

\* scatter_sum(b[:, v], ii[v], dim=1, dim_size=n)
safe_scatter_add_vec(b, ii, n) ==
    scatter_sum(b, ii, MaskVec(ii, n), n)

\* torch.zeros: a buffer of size blocks.
ZeroBuf(size) == [ok |-> TRUE, val |-> [k \in 0 .. (size - 1) |-> 0]]

\* Tensor.scatter_add_(1, index, src) on the buffer H of size blocks:
\* H[index[e]] += src[e]; an index outside [0, size) is an error.
scatter_add_(H, src, index, E, size) ==
    LET r == scatter_sum(src, index, E, size)
    IN  [ok |-> H.ok /\ r.ok,
         val |-> [k \in 0 .. (size - 1) |-> H.val[k] + r.val[k]]]

\* v = (ii >= 0) & (jj >= 0); H.scatter_add_(1, ii[v] * M + jj[v], data[:, v])
safe_scatter_add_mat_inplace(H, data, ii, jj, M) ==
    scatter_add_(H, data, [e \in DOMAIN ii |-> ii[e] * M + jj[e]],
                 {e \in DOMAIN ii : ii[e] >= 0 /\ jj[e] >= 0}, M * M)

\* v = ii >= 0; b.scatter_add_(1, ii[v], data[:, v])
safe_scatter_add_vec_inplace(b, data, ii, M) ==
    scatter_add_(b, data, ii, {e \in DOMAIN ii : ii[e] >= 0}, M)

----------------------------------------------------------------------------
(* Bundle adjustment engine (ba.py: 95-197, 282-457, 545-740)               *)

\* fixedp = max(t0, 1): always fix at least the first keyframe
FixedpNoFloor(t0) == t0

Fixedp(t0) == Max(t0, 1)

\* The keyframe window x[:, :t1] that every variant reads and writes back.
WindowOneMore(t1) == 0 .. t1

Window(t1) == 0 .. (t1 - 1)

\* kx, kk = torch.unique(ii, return_inverse=True): the source nodes
Kx(ii) == {ii[e] : e \in DOMAIN ii}

\* kx_exp = unique(cat([arange(t0, t1), ii]))
KxExp(ii, t0, t1) == (t0 .. (t1 - 1)) \cup Kx(ii)

\* additive_retr(x, d, kx): x + scatter_sum(d, kx, dim_size=x.shape[1]),
\* written back into all_x[:, :t1].  d is the update of every node of kx.
AdditiveRetr(x, d, kx, t1) ==
    [k \in Frames |-> IF k \in Window(t1) /\ k \in kx THEN x[k] + d ELSE x[k]]

\* poses1, poses2 = poses[:, :fixedp], poses[:, fixedp:]; poses2.retr(dx);
\* all_poses[:, :t1] = cat([poses1, poses2])
PoseRetr(x, dx, t0, t1) ==
    [k \in Frames |-> IF k \in Window(t1) /\ k >= Fixedp(t0)
                      THEN ExtAdd(x[k], dx) ELSE x[k]]

\* disps.clamp(min=0.001) builds a clamped copy; the loop drops it and the
\* shared array stays as the variant left it.
ClampedCopy(d) == [k \in Frames |-> Max(d[k], DispFloor)]

ClampStmt(d) == LET unused == ClampedCopy(d) IN d

\* The edge lists of a call over the window [0, t1): every list of at most
\* MaxEdges source indices, grouped by source as the factor graph keeps
\* them; the target of an edge is the next frame of the window.
EdgeLists(t1) ==
    IF t1 = 0 THEN {<<>>}
    ELSE UNION {{s \in [1 .. n -> 0 .. (t1 - 1)] :
                    \A e \in 1 .. (n - 1) : s[e] <= s[e + 1]} : n \in 0 .. MaxEdges}

Targets(ii, t1) == [e \in DOMAIN ii |-> (ii[e] + 1) % t1]

\* The call record: the arguments, the loop position (iters iterations
\* left, it done, requested asked for), and of the iterations done so far:
\*   ran        the variants that were executed
\*   zero_all   every one of them started from a zero residual
\*   chol, lu_called, lu   the solver results of the last MoBA iteration
\* The arguments intrinsics, target and disps_sens are read by the variants.
InitIntrinsics == [k \in Frames |-> 1]
InitTarget(ii) == [e \in DOMAIN ii |-> 0]
InitDispsSens(hs) == IF hs THEN [k \in Frames |-> DispFloor + 1] ELSE <<>>

\* eta, the per-keyframe damping the caller supplies.
InitEta == [k \in Frames |-> 0]

IdleCall ==
    [pc |-> "idle", motion_only |-> FALSE, structure_only |-> FALSE,
     scale_prior |-> FALSE, has_sens |-> FALSE, t0 |-> 0, t1 |-> 0,
     ii |-> <<>>, jj |-> <<>>, iters |-> 0, it |-> 0, requested |-> 0,
     ran |-> {}, zero_all |-> TRUE, chol |-> 0, lu_called |-> FALSE, lu |-> 0,
     intrinsics |-> InitIntrinsics, target |-> <<>>, disps_sens |-> <<>>]

InitPoses == [k \in Frames |-> 0]
InitDisps == [k \in Frames |-> DispFloor]
InitScales == [k \in Frames |-> 1]
InitShifts == [k \in Frames |-> 0]

BAInit ==
    /\ poses = InitPoses
    /\ disps = InitDisps
    /\ scales = InitScales
    /\ shifts = InitShifts
    /\ counter = NFrames - 1
    /\ ba = IdleCall

\* The preconditions without the assertion on the two flags.
AssertsFailPriorOnly(mo, so, sp, hs) == sp /\ ~hs

\* One of the two assertions of bundle_adjustment fails:
\*   assert sum([structure_only, motion_only]) <= 1
\*   if scale_prior: assert disps_sens is not None
AssertsFail(mo, so, sp, hs) == (mo /\ so) \/ (sp /\ ~hs)

\* bundle_adjustment up to the loop: the two assertions, then the variant.
BundleAdjustmentCall ==
    /\ ba.pc = "idle"
    /\ \E mo, so, sp, hs \in BOOLEAN, t1 \in 0 .. NFrames, iters \in 0 .. MaxIters :
         \E t0 \in 0 .. t1, ii \in EdgeLists(t1) :
            ba' = [pc |-> IF AssertsFail(mo, so, sp, hs) THEN "failed" ELSE "loop",
                   motion_only |-> mo, structure_only |-> so, scale_prior |-> sp,
                   has_sens |-> hs, t0 |-> t0, t1 |-> t1,
                   ii |-> ii, jj |-> Targets(ii, t1), iters |-> iters, it |-> 0,
                   requested |-> iters, ran |-> {}, zero_all |-> TRUE,
                   chol |-> 0, lu_called |-> FALSE, lu |-> 0,
                   intrinsics |-> InitIntrinsics, target |-> InitTarget(ii),
                   disps_sens |-> InitDispsSens(hs)]
    /\ UNCHANGED <<poses, disps, scales, shifts, counter>>

\* The selection that tests scale_prior before motion_only.
VariantPriorFirst(c) ==
    IF c.scale_prior
    THEN (IF c.structure_only THEN "BA_prior_no_motion" ELSE "BA_prior")
    ELSE IF c.motion_only THEN "MoBA" ELSE "BA"

\* The variant selected by the flags (ba.py: 171-184).
Variant(c) ==
    IF c.motion_only THEN "MoBA"
    ELSE IF c.scale_prior
         THEN (IF c.structure_only THEN "BA_prior_no_motion" ELSE "BA_prior")
         ELSE "BA"

\* A variant that builds the pose system of m = t1 - fixedp frames fails
\* on a negative m before it writes anything.
PoseSystemFails(c) == c.t1 < Fixedp(c.t0)

Iterating(v) == ba.pc = "loop" /\ ba.iters > 0 /\ Variant(ba) = v

\* The end of one loop iteration that ran variant v from a residual that
\* was zero (zr) or not.
IterDone(v, zr) ==
    [ba EXCEPT !.iters = @ - 1, !.it = @ + 1, !.ran = @ \cup {v},
               !.zero_all = @ /\ zr]

\* The right-hand sides never vanish.
RhsNeverZero(zr, prior) == FALSE

\* The right-hand sides v and w of an iteration are zero: vi, vj and wk
\* are sums of products with the residual r, and the prior term of BA
\* adds alpha * (disps - disps_sens) to w wherever a prior is given.
RhsZero(zr, prior) == zr /\ ~prior

\* The updates schur_block_solve / schur_solve may return.
SchurResults(rhs_zero) == IF rhs_zero THEN {0} ELSE DeltaVals

\* The update MoBA applies, from the result of the Cholesky solver and
\* that of the LU solver (which runs only if the first holds a NaN).
MoBASolve(chol, lu) ==
    IF IsNaN(chol) THEN (IF IsNaN(lu) THEN 0 ELSE lu) ELSE chol

\* One loop iteration with MoBA.
MoBAStep ==
    /\ Iterating("MoBA") /\ ~PoseSystemFails(ba)
    /\ \E zr \in BOOLEAN :
         \E chol, lu \in SolverResults(RhsZero(zr, FALSE)) :
            /\ ~IsNaN(chol) => lu = 0
            /\ poses' = PoseRetr(poses, MoBASolve(chol, lu), ba.t0, ba.t1)
            /\ ba' = [IterDone("MoBA", zr) EXCEPT
                          !.chol = chol, !.lu_called = IsNaN(chol), !.lu = lu]
    /\ disps' = ClampStmt(disps)
    /\ UNCHANGED <<scales, shifts, counter>>

\* The structure-only branch moves the poses as the joint branch does.
BAPosesAlways(c, x, dx) == PoseRetr(x, dx, c.t0, c.t1)

\* The poses after an iteration of BA: its structure_only branch solves for
\* dz alone and writes the disparities only, its joint branch retracts the
\* poses as well.
BAPoses(c, x, dx) ==
    IF c.structure_only THEN x ELSE PoseRetr(x, dx, c.t0, c.t1)

\* One loop iteration with BA (structure_only or joint).
BAStep ==
    /\ Iterating("BA") /\ ~PoseSystemFails(ba)
    /\ \E zr \in BOOLEAN :
         \E dx, dz \in SchurResults(RhsZero(zr, ba.has_sens)) :
            /\ poses' = BAPoses(ba, poses, dx)
            /\ disps' = ClampStmt(AdditiveRetr(disps, dz, Kx(ba.ii), ba.t1))
            /\ ba' = IterDone(IF ba.structure_only THEN "BA_structure_only"
                                                   ELSE "BA_joint", zr)
    /\ UNCHANGED <<scales, shifts, counter>>

\* One loop iteration with BA_prior.
BAPriorStep ==
    /\ Iterating("BA_prior") /\ ~PoseSystemFails(ba)
    /\ \E dx, dz \in DeltaVals, ds, do \in PriorDeltaVals :
         /\ poses' = PoseRetr(poses, dx, ba.t0, ba.t1)
         /\ disps' = ClampStmt(AdditiveRetr(disps, dz, Kx(ba.ii), ba.t1))
         /\ scales' = AdditiveRetr(scales, ds, Kx(ba.ii), ba.t1)
         /\ shifts' = AdditiveRetr(shifts, do, Kx(ba.ii), ba.t1)
    /\ ba' = IterDone("BA_prior", FALSE)
    /\ UNCHANGED counter

\* kk of "kx, kk = torch.unique(ii, return_inverse=True)": the position of
\* each edge's source in the sorted kx.
InverseIndex(ii) ==
    [e \in DOMAIN ii |-> Cardinality({k \in Kx(ii) : k < ii[e]})]

\* non_empty_nodes = torch.isin(kx_exp, kx)
NonEmptyNodes(ii, t0, t1) == {k \in KxExp(ii, t0, t1) : k \in Kx(ii)}

\* C_exp = zeros(n_exp); C_exp[:, non_empty_nodes] = C: the rows of the
\* n accumulated nodes placed among the n_exp nodes, the others zero.
Padded(x, ii, t0, t1) ==
    [k \in KxExp(ii, t0, t1) |->
        IF k \in NonEmptyNodes(ii, t0, t1)
        THEN x.val[Cardinality({j \in Kx(ii) : j < k})] ELSE 0]

\* r2 = disps[:, kx_exp] - (disps_sens[:, kx_exp] * scales + shifts)
PriorResidual(c, k) == disps[k] - (c.disps_sens[k] * scales[k] + shifts[k])

\* The system BA_prior_no_motion assembles for the nodes of kx_exp, with
\* unit blocks Ck and wk per edge:
\*   C_pad, w_pad   C_exp and w_exp as padded, before damping
\*   C              C_exp + alpha * 1.0 + eta
\*   w              w_exp, with alpha * r2 subtracted at the non-empty nodes
\*   Js, Jo         the column of each node in the Jacobians of r2 with
\*                  respect to scale and shift, zeroed at the empty nodes
PriorNoMotionSystem(c) ==
    LET kx_exp == KxExp(c.ii, c.t0, c.t1)
        non_empty_nodes == NonEmptyNodes(c.ii, c.t0, c.t1)
        n == Cardinality(Kx(c.ii))
        unit == [e \in DOMAIN c.ii |-> 1]
        C_pad == Padded(safe_scatter_add_vec(unit, InverseIndex(c.ii), n),
                        c.ii, c.t0, c.t1)
        w_pad == Padded(safe_scatter_add_vec(unit, InverseIndex(c.ii), n),
                        c.ii, c.t0, c.t1)
    IN  [kx_exp |-> kx_exp,
         C_pad |-> C_pad,
         w_pad |-> w_pad,
         C |-> [k \in kx_exp |-> C_pad[k] + Alpha + InitEta[k]],
         r2 |-> [k \in kx_exp |-> PriorResidual(c, k)],
         w |-> [k \in kx_exp |->
                   IF k \in non_empty_nodes
                   THEN w_pad[k] - Alpha * PriorResidual(c, k) ELSE w_pad[k]],
         Js |-> [k \in kx_exp |->
                    IF k \in non_empty_nodes THEN 0 - c.disps_sens[k] ELSE 0],
         Jo |-> [k \in kx_exp |-> IF k \in non_empty_nodes THEN 0 - 1 ELSE 0]]

\* The back-substitution dz = (w - E^T dso) / C of the Schur solve for one
\* node: zero where the row of w and the columns of E = [F, K] vanish,
\* else the update dz the solver returns.
BackSubstitute(sys, k, dz) ==
    IF sys.w[k] = 0 /\ sys.Js[k] = 0 /\ sys.Jo[k] = 0 THEN 0 ELSE dz

\* One loop iteration with BA_prior_no_motion.  additive_retr scatters
\* the update of every node of kx_exp: the nodes whose back-substitution
\* gives dz and those where it gives zero are written in turn.
BAPriorNoMotionStep ==
    /\ Iterating("BA_prior_no_motion")
    /\ \E sys \in {PriorNoMotionSystem(ba)} :
         \E dz \in DeltaVals, ds, do \in PriorDeltaVals :
            LET moved == {k \in sys.kx_exp : BackSubstitute(sys, k, dz) = dz}
            IN  /\ disps' = ClampStmt(AdditiveRetr(
                                AdditiveRetr(disps, dz, moved, ba.t1),
                                0, sys.kx_exp \ moved, ba.t1))
                /\ scales' = AdditiveRetr(scales, ds, sys.kx_exp, ba.t1)
                /\ shifts' = AdditiveRetr(shifts, do, sys.kx_exp, ba.t1)
    /\ ba' = IterDone("BA_prior_no_motion", FALSE)
    /\ UNCHANGED <<poses, counter>>

\* The variant raises: the exception leaves bundle_adjustment.
BAStepFails ==
    /\ ba.pc = "loop" /\ ba.iters > 0
    /\ Variant(ba) # "BA_prior_no_motion" /\ PoseSystemFails(ba)
    /\ ba' = [ba EXCEPT !.pc = "failed"]
    /\ UNCHANGED <<poses, disps, scales, shifts, counter>>

\* The loop is over; bundle_adjustment returns.
BAReturn ==
    /\ ba.pc = "loop" /\ ba.iters = 0
    /\ ba' = [ba EXCEPT !.pc = "done"]
    /\ UNCHANGED <<poses, disps, scales, shifts, counter>>

\* The tracking stage appends a keyframe at index counter.
TrackingAppend ==
    /\ counter < NFrames
    /\ poses' = [poses EXCEPT ![counter] = poses[counter - 1]]
    /\ disps' = [disps EXCEPT ![counter] = DispFloor + 1]
    /\ counter' = counter + 1
    /\ UNCHANGED <<scales, shifts, ba>>

BAIteration ==
    MoBAStep \/ BAStep \/ BAPriorStep \/ BAPriorNoMotionStep

----------------------------------------------------------------------------
(* Scatter-add calls on drawn inputs                                        *)

ScBlocks(n) == {[e \in 1 .. n |-> 2 ^ (e - 1)], [e \in 1 .. n |-> 1]}

ScIdle ==
    [pc |-> "idle", A |-> <<>>, ii |-> <<>>, jj |-> <<>>, n |-> 1, m |-> 1,
     mat |-> [ok |-> TRUE, val |-> <<>>], vec |-> [ok |-> TRUE, val |-> <<>>],
     H |-> [ok |-> TRUE, val |-> <<>>], v |-> [ok |-> TRUE, val |-> <<>>]]

ScInit ==
    \E len \in 0 .. ScLen, n, m \in 1 .. ScNodes :
      \E A \in ScBlocks(len), ii, jj \in [1 .. len -> (0 - 1) .. ScNodes] :
        sc = [ScIdle EXCEPT !.pc = "input", !.A = A, !.ii = ii, !.jj = jj,
                            !.n = n, !.m = m]

\* safe_scatter_add_mat(A, ii, jj, n, m)
ScatterMat ==
    /\ sc.pc = "input"
    /\ sc' = [sc EXCEPT !.pc = "mat",
                        !.mat = safe_scatter_add_mat(sc.A, sc.ii, sc.jj, sc.n, sc.m)]

\* safe_scatter_add_vec(b, ii, n)
ScatterVec ==
    /\ sc.pc = "mat"
    /\ sc' = [sc EXCEPT !.pc = "vec",
                        !.vec = safe_scatter_add_vec(sc.A, sc.ii, sc.n)]

\* H = torch.zeros(bs, m * m, d, d); safe_scatter_add_mat_inplace(H, A, ii, jj, bs, m, d)
ScatterMatInplace ==
    /\ sc.pc = "vec"
    /\ sc' = [sc EXCEPT !.pc = "mat_inplace",
                        !.H = safe_scatter_add_mat_inplace(
                                  ZeroBuf(sc.n * sc.n), sc.A, sc.ii, sc.jj, sc.n)]

\* v = torch.zeros(bs, m, d); safe_scatter_add_vec_inplace(v, b, ii, bs, m, d)
ScatterVecInplace ==
    /\ sc.pc = "mat_inplace"
    /\ sc' = [sc EXCEPT !.pc = "vec_inplace",
                        !.v = safe_scatter_add_vec_inplace(
                                  ZeroBuf(sc.n), sc.A, sc.ii, sc.n)]

----------------------------------------------------------------------------
(* SLAM: the orchestrator SLAM.run and its six worker processes (slam.py)  *)

\* The processes list of run(), in its order.
Procs == <<"show_stream", "tracking", "global_ba", "visualizing",
           "gaussian_mapping", "mapping_gui">>
Workers == {Procs[i] : i \in 1 .. Len(Procs)}

\* The timestamps of the input stream.
Stream == [i \in 1 .. StreamLen |-> i - 1]

\* The loop over the stream that goes on at a frame past t_stop.
GateNoBreak(c, timestamp) ==
    IF timestamp < c.t_start THEN "continue"
    ELSE IF c.t_stop_set /\ timestamp > c.t_stop THEN "continue"
    ELSE "frontend"

\* What the loop of tracking does with a frame:
\*   if timestamp < self.t_start: continue
\*   if self.t_stop is not None and timestamp > self.t_stop: break
Gate(c, timestamp) ==
    IF timestamp < c.t_start THEN "continue"
    ELSE IF c.t_stop_set /\ timestamp > c.t_stop THEN "break"
    ELSE "frontend"

\* Memory utilizations get_ram_usage may report, in tenths.
MemSamples == {2, 4, 7, 10}

\* The configuration with every optional stage disabled.
BaseCfg ==
    [run_backend |-> FALSE, run_mapping |-> FALSE, run_visualization |-> FALSE,
     run_mapping_gui |-> FALSE, show_stream |-> FALSE, evaluate |-> FALSE,
     plot_uncertainty |-> FALSE, do_refinement |-> TRUE, enable_loop |-> FALSE,
     max_ram |-> DefaultMaxRam, t_start |-> 0, t_stop_set |-> FALSE, t_stop |-> 0,
     mode |-> "mono", optimize_scales |-> FALSE, opt_intr |-> FALSE,
     use_non_keyframes |-> FALSE, refinement_iters |-> 1, stream |-> Stream]

\* The configurations explored.
Configs ==
    {[BaseCfg EXCEPT !.run_backend = TRUE, !.evaluate = TRUE],
     [BaseCfg EXCEPT !.run_visualization = TRUE],
     [BaseCfg EXCEPT !.run_backend = TRUE, !.enable_loop = TRUE,
                     !.do_refinement = FALSE, !.max_ram = 3,
                     !.show_stream = TRUE, !.plot_uncertainty = TRUE],
     [BaseCfg EXCEPT !.run_mapping = TRUE, !.run_mapping_gui = TRUE]}

\* The run argument each worker is started with (args of mp.Process).
RunFlag(c, w) ==
    CASE w = "show_stream" -> c.show_stream
      [] w = "tracking" -> TRUE
      [] w = "global_ba" -> c.run_backend
      [] w = "visualizing" -> c.run_visualization
      [] w = "gaussian_mapping" -> c.run_mapping
      [] w = "mapping_gui" -> c.run_mapping_gui /\ c.run_mapping /\ ~c.evaluate

\* The counters and flags SLAM.__init__ puts in shared memory.
InitCnt ==
    [num_running_thread |-> 0, all_trigered |-> 0, all_finished |-> 0,
     tracking_finished |-> 0, backend_finished |-> 0,
     gaussian_mapping_finished |-> 0, visualizing_finished |-> 0,
     mapping_visualizing_finished |-> 0]

\* self.backend after __init__, with what the safeguard has seen:
\*   exists   self.backend is not None
\*   sample   used_mem of the last ram_safeguard_backend call
\*   tripped  a sample above max_ram was taken while a backend existed and
\*            no later cycle has sampled at most min_ram
\*   at_exit  whether a backend existed when the cycle loop was left
\*   t_end, passes, last   the final refinement
InitBk ==
    [exists |-> TRUE, sample |-> 0, tripped |-> FALSE, at_exit |-> "running",
     t_end |-> 0, passes |-> 0, last |-> "none"]

\* The locals of run() around the mapping handoff, and whether terminate
\* has run self.evaluate.
InitHand ==
    [a |-> "unset", last_state |-> "unset", received |-> FALSE, gets |-> 0,
     evaluated |-> FALSE]

RunIdle ==
    /\ cfg = BaseCfg
    /\ pc = [p \in Workers \cup {"main"} |-> "off"]
    /\ reg = [w \in Workers |-> 0]
    /\ cnt = InitCnt
    /\ lock = "free"
    /\ dirty = {}
    /\ bk = InitBk
    /\ mq = <<>>
    /\ inq = 0
    /\ hand = InitHand
    /\ snap = {}
    /\ actors = <<>>
    /\ frame = 0
    /\ fed = <<>>
    /\ killed = <<>>

RunInit ==
    /\ cfg \in Configs
    /\ pc = [p \in Workers \cup {"main"} |-> IF p = "main" THEN "M_init" ELSE "off"]
    /\ reg = [w \in Workers |-> 0]
    /\ cnt = InitCnt
    /\ lock = "free"
    /\ dirty = {}
    /\ bk = InitBk
    /\ mq = <<>>
    /\ inq = 0
    /\ hand = InitHand
    /\ snap = {}
    /\ actors = <<>>
    /\ frame = 0
    /\ fed = <<>>
    /\ killed = <<>>
    /\ poses = InitPoses /\ disps = InitDisps
    /\ scales = InitScales /\ shifts = InitShifts
    /\ counter = 0
    /\ ba = IdleCall

\* The first statement of each worker after its "all_trigered += 1".
Body(w) ==
    CASE w = "show_stream" -> "S_loop"
      [] w = "tracking" -> "K_barrier"
      [] w = "global_ba" -> "G_loop"
      [] w = "visualizing" -> "V_loop"
      [] w = "gaussian_mapping" -> "GM_loop"
      [] w = "mapping_gui" -> "GUI_loop"

\* "self.all_trigered += 1" on a shared-memory tensor is a read of the value
\* followed by a write of the value plus one; other processes run between.
TrigRead(w) ==
    /\ pc[w] = "T_r"
    /\ reg' = [reg EXCEPT ![w] = cnt.all_trigered]
    /\ pc' = [pc EXCEPT ![w] = "T_w"]
    /\ UNCHANGED <<cfg, cnt, lock, dirty, bk, mq, inq, hand, snap, actors, frame, fed, killed, counter>>

TrigWrite(w) ==
    /\ pc[w] = "T_w"
    /\ cnt' = [cnt EXCEPT !.all_trigered = reg[w] + 1]
    /\ reg' = [reg EXCEPT ![w] = 0]
    /\ pc' = [pc EXCEPT ![w] = Body(w)]
    /\ UNCHANGED <<cfg, lock, dirty, bk, mq, inq, hand, snap, actors, frame, fed, killed, counter>>

\* "self.all_finished += 1", the last statement of every worker.
FinRead(w) ==
    /\ pc[w] = "F_r"
    /\ reg' = [reg EXCEPT ![w] = cnt.all_finished]
    /\ pc' = [pc EXCEPT ![w] = "F_w"]
    /\ UNCHANGED <<cfg, cnt, lock, dirty, bk, mq, inq, hand, snap, actors, frame, fed, killed, counter>>

FinWrite(w) ==
    /\ pc[w] = "F_w"
    /\ cnt' = [cnt EXCEPT !.all_finished = reg[w] + 1]
    /\ reg' = [reg EXCEPT ![w] = 0]
    /\ pc' = [pc EXCEPT ![w] = "done"]
    /\ UNCHANGED <<cfg, lock, dirty, bk, mq, inq, hand, snap, actors, frame, fed, killed, counter>>

\* The loop condition left as soon as one of the two stages has finished.
StagesRunningEither(c, w) ==
    cnt.tracking_finished + cnt.backend_finished < 1 /\ RunFlag(c, w)

\* The loop condition shared by show_stream, visualizing, gaussian_mapping
\* and mapping_gui: (tracking_finished + backend_finished) < 2 and run.
StagesRunning(c, w) ==
    cnt.tracking_finished + cnt.backend_finished < 2 /\ RunFlag(c, w)

(* show_stream *)

\* One evaluation of the while condition; in the body, the queue read.
\* Once the condition fails it fails for good, and the worker goes on to
\* read all_finished for its "+= 1".
ShowStreamLoop ==
    /\ pc["show_stream"] = "S_loop"
    /\ IF StagesRunning(cfg, "show_stream")
       THEN /\ inq' = IF inq > 0 THEN inq - 1 ELSE inq
            /\ pc' = [pc EXCEPT !["show_stream"] =
                          IF cfg.plot_uncertainty THEN "S_lock" ELSE "S_loop"]
            /\ reg' = reg
       ELSE /\ inq' = inq
            /\ reg' = [reg EXCEPT !["show_stream"] = cnt.all_finished]
            /\ pc' = [pc EXCEPT !["show_stream"] = "F_w"]
    /\ UNCHANGED <<cfg, cnt, lock, dirty, bk, mq, hand, snap, actors, frame, fed, killed, counter>>

\* with self.video.get_lock():
ShowStreamLock ==
    /\ pc["show_stream"] = "S_lock"
    /\ lock = "free"
    /\ lock' = "show_stream"
    /\ pc' = [pc EXCEPT !["show_stream"] = "S_read"]
    /\ UNCHANGED <<cfg, reg, cnt, dirty, bk, mq, inq, hand, snap, actors, frame, fed, killed, counter>>

\* t_cur and the uncertainty of frame t_cur are read, the lock is released.
ShowStreamRead ==
    /\ pc["show_stream"] = "S_read"
    /\ lock' = "free"
    /\ pc' = [pc EXCEPT !["show_stream"] = "S_loop"]
    /\ UNCHANGED <<cfg, reg, cnt, dirty, bk, mq, inq, hand, snap, actors, frame, fed, killed, counter>>

(* tracking *)

\* The start barrier passed one start increment short.
StartBarrierEarly(all_trigered, num_running_thread) ==
    ~(all_trigered + 1 < num_running_thread)

\* The exit of "while self.all_trigered < self.num_running_thread: pass".
StartBarrier(all_trigered, num_running_thread) ==
    ~(all_trigered < num_running_thread)

\* while self.all_trigered < self.num_running_thread: pass
TrackingBarrier ==
    /\ pc["tracking"] = "K_barrier"
    /\ StartBarrier(cnt.all_trigered, cnt.num_running_thread)
    /\ pc' = [pc EXCEPT !["tracking"] = "K_frame"]
    /\ UNCHANGED <<cfg, reg, cnt, lock, dirty, bk, mq, inq, hand, snap, actors, frame, fed, killed, counter>>

\* del self.frontend; self.tracking_finished += 1
TrackingFinished ==
    /\ cnt' = [cnt EXCEPT !.tracking_finished = @ + 1]
    /\ pc' = [pc EXCEPT !["tracking"] = "F_r"]

\* One iteration of "for frame in stream": the frame is skipped, or it is
\* passed to the frontend, which adds it to the store as a keyframe or
\* drops it.  When the stream is exhausted or a frame is past t_stop the
\* loop ends and tracking_finished is set.
TrackingFrame ==
    /\ pc["tracking"] = "K_frame"
    /\ IF frame < Len(cfg.stream)
       THEN LET timestamp == cfg.stream[frame + 1] IN
            IF Gate(cfg, timestamp) = "continue"
            THEN /\ frame' = frame + 1
                 /\ UNCHANGED <<pc, cnt, inq, counter, dirty, fed>>
            ELSE IF Gate(cfg, timestamp) = "break"
            THEN /\ TrackingFinished
                 /\ UNCHANGED <<frame, fed, inq, counter, dirty>>
            ELSE /\ lock = "free"
                 /\ inq' = IF cfg.show_stream THEN inq + 1 ELSE inq
                 /\ frame' = frame + 1
                 /\ fed' = Append(fed, timestamp)
                 /\ \E keyframe \in BOOLEAN :
                        IF keyframe
                        THEN counter' = counter + 1 /\ dirty' = dirty \cup {counter}
                        ELSE UNCHANGED <<counter, dirty>>
                 /\ UNCHANGED <<pc, cnt>>
       ELSE /\ TrackingFinished
            /\ UNCHANGED <<frame, fed, inq, counter, dirty>>
    /\ UNCHANGED <<cfg, reg, lock, bk, mq, hand, snap, actors, killed>>

(* global_ba *)

\* ram_safeguard_backend(max_ram): the backend after a call that samples
\* the utilization used_mem.
RamSafeguardBackend(b, used_mem, max_ram) ==
    LET deleted == used_mem > max_ram /\ b.exists
        kept == b.exists /\ ~deleted
        reinstantiated == ~kept /\ used_mem <= MinRam
    IN [b EXCEPT !.exists = kept \/ reinstantiated,
                 !.sample = used_mem,
                 !.tripped = IF deleted THEN TRUE
                             ELSE IF used_mem <= MinRam THEN FALSE ELSE @]

\* The guard of the final refinement, refining whenever a backend exists.
DoRefineAlways(b, c) == c.run_backend /\ b.exists

\* The guard of the final refinement:
\* run and self.backend is not None and self.backend.do_refinement
DoRefine(b, c) == c.run_backend /\ b.exists /\ c.do_refinement

\* One evaluation of "while self.tracking_finished < 1 and run"; in the
\* body the safeguard runs, and the cycle goes on to the backend call only
\* if a backend exists after it.
BackendLoop ==
    /\ pc["global_ba"] = "G_loop"
    /\ IF cnt.tracking_finished < 1 /\ RunFlag(cfg, "global_ba")
       THEN \E used_mem \in MemSamples :
                /\ bk' = RamSafeguardBackend(bk, used_mem, cfg.max_ram)
                /\ pc' = [pc EXCEPT !["global_ba"] =
                              IF bk'.exists THEN "G_ba" ELSE "G_loop"]
       ELSE /\ bk' = [bk EXCEPT !.at_exit = IF bk.exists THEN "backend" ELSE "none"]
            /\ pc' = [pc EXCEPT !["global_ba"] =
                          IF DoRefine(bk, cfg) THEN "G_lock" ELSE "G_del"]
    /\ UNCHANGED <<cfg, reg, cnt, lock, dirty, mq, inq, hand, snap, actors, frame, fed, killed, counter>>

\* self.backend() or self.backend(local_graph=...): one global bundle
\* adjustment over the store, taken under the store's lock.
BackendCall ==
    /\ pc["global_ba"] = "G_ba"
    /\ lock = "free"
    /\ dirty' = dirty \cup (0 .. (counter - 1))
    /\ pc' = [pc EXCEPT !["global_ba"] = "G_loop"]
    /\ UNCHANGED <<cfg, reg, cnt, lock, bk, mq, inq, hand, snap, actors, frame, fed, killed, counter>>

\* with self.video.get_lock():
RefineLock ==
    /\ pc["global_ba"] = "G_lock"
    /\ lock = "free"
    /\ lock' = "global_ba"
    /\ pc' = [pc EXCEPT !["global_ba"] = "G_read"]
    /\ UNCHANGED <<cfg, reg, cnt, dirty, bk, mq, inq, hand, snap, actors, frame, fed, killed, counter>>

\* t_end = self.video.counter.value, and the lock is released.
RefineRead ==
    /\ pc["global_ba"] = "G_read"
    /\ bk' = [bk EXCEPT !.t_end = counter]
    /\ lock' = "free"
    /\ pc' = [pc EXCEPT !["global_ba"] = "G_pass"]
    /\ UNCHANGED <<cfg, reg, cnt, dirty, mq, inq, hand, snap, actors, frame, fed, killed, counter>>

\* One of the two passes loop_ba / dense_ba (t_start=0, t_end=t_end).
RefinePass ==
    /\ pc["global_ba"] = "G_pass"
    /\ lock = "free"
    /\ bk' = [bk EXCEPT !.passes = @ + 1,
                        !.last = IF cfg.enable_loop THEN "loop_ba" ELSE "dense_ba"]
    /\ dirty' = dirty \cup (0 .. (bk.t_end - 1))
    /\ pc' = [pc EXCEPT !["global_ba"] =
                  IF bk.passes + 1 = RefinePasses THEN "G_del" ELSE "G_pass"]
    /\ UNCHANGED <<cfg, reg, cnt, lock, mq, inq, hand, snap, actors, frame, fed, killed, counter>>

\* del self.backend; self.backend_finished += 1
BackendFinished ==
    /\ pc["global_ba"] = "G_del"
    /\ bk' = [bk EXCEPT !.exists = FALSE]
    /\ cnt' = [cnt EXCEPT !.backend_finished = @ + 1]
    /\ pc' = [pc EXCEPT !["global_ba"] = "F_r"]
    /\ UNCHANGED <<cfg, reg, lock, dirty, mq, inq, hand, snap, actors, frame, fed, killed, counter>>

(* visualizing and droid_visualization *)

\* One evaluation of the while condition of visualizing.  The visualizer
\* returns no value, so "not finished" holds at every evaluation; each
\* call of droid_visualization starts with empty cameras and points and a
\* new viewer.
\* Once the condition fails, visualizing_finished (which no process reads)
\* is incremented and all_finished is read for the "+= 1".
VisualizingLoop ==
    /\ pc["visualizing"] = "V_loop"
    /\ IF StagesRunning(cfg, "visualizing")
       THEN /\ pc' = [pc EXCEPT !["visualizing"] = "V_idle"]
            /\ actors' = <<>>
            /\ UNCHANGED <<cnt, reg>>
       ELSE /\ cnt' = [cnt EXCEPT !.visualizing_finished = @ + 1]
            /\ actors' = actors
            /\ reg' = [reg EXCEPT !["visualizing"] = cnt.all_finished]
            /\ pc' = [pc EXCEPT !["visualizing"] = "F_w"]
    /\ UNCHANGED <<cfg, lock, dirty, bk, mq, inq, hand, snap, frame, fed, killed, counter>>

\* animation_callback: with video.get_lock():
AnimationLock ==
    /\ pc["visualizing"] = "V_idle"
    /\ lock = "free"
    /\ lock' = "visualizing"
    /\ pc' = [pc EXCEPT !["visualizing"] = "V_snap"]
    /\ UNCHANGED <<cfg, reg, cnt, dirty, bk, mq, inq, hand, snap, actors, frame, fed, killed, counter>>

\* t and dirty_index are read, the lock is released; the callback returns
\* if no frame is dirty.
AnimationSnapshot ==
    /\ pc["visualizing"] = "V_snap"
    /\ lock' = "free"
    /\ snap' = IF dirty = {} THEN snap ELSE dirty
    /\ pc' = [pc EXCEPT !["visualizing"] = IF dirty = {} THEN "V_idle" ELSE "V_clear"]
    /\ UNCHANGED <<cfg, reg, cnt, dirty, bk, mq, inq, hand, actors, frame, fed, killed, counter>>

\* video.dirty[dirty_index] = False
AnimationClear ==
    /\ pc["visualizing"] = "V_clear"
    /\ dirty' = dirty \ snap
    /\ pc' = [pc EXCEPT !["visualizing"] = "V_draw"]
    /\ UNCHANGED <<cfg, reg, cnt, lock, bk, mq, inq, hand, snap, actors, frame, fed, killed, counter>>

\* The redraw that adds the new actors next to the old ones.
RedrawKeepOld(a, ix) ==
    IF ix \in DOMAIN a THEN <<a[ix][1] + 1, a[ix][2] + 1>> ELSE <<1, 1>>

\* The actors of frame ix after one pass of the loop over dirty_index: the
\* camera actor and the point actor registered for ix, if any, are
\* removed from the viewer, then one of each is added and registered.
Redraw(a, ix) ==
    LET cameras == IF ix \in DOMAIN a THEN a[ix][1] - 1 ELSE 0
        points == IF ix \in DOMAIN a THEN a[ix][2] - 1 ELSE 0
    IN  <<cameras + 1, points + 1>>

\* The poses and disparities of the dirty frames are read and drawn.
AnimationDraw ==
    /\ pc["visualizing"] = "V_draw"
    /\ actors' = [ix \in DOMAIN actors \cup snap |->
                      IF ix \in snap THEN Redraw(actors, ix) ELSE actors[ix]]
    /\ snap' = {}
    /\ pc' = [pc EXCEPT !["visualizing"] = "V_idle"]
    /\ UNCHANGED <<cfg, reg, cnt, lock, dirty, bk, mq, inq, hand, frame, fed, killed, counter>>

\* Key callbacks: increase/decrease_filter and increase/decrease_camera set
\* dirty[:counter], deactivate_update clears dirty[:]; each inside the lock.
KeyCallback ==
    /\ pc["visualizing"] = "V_idle"
    /\ lock = "free"
    /\ \E mark \in BOOLEAN :
           dirty' = IF mark THEN dirty \cup (0 .. (counter - 1)) ELSE {}
    /\ UNCHANGED <<cfg, pc, reg, cnt, lock, bk, mq, inq, hand, snap, actors, frame, fed, killed, counter>>

\* The user closes the window: vis.run() returns, vis.destroy_window()
\* destroys the viewer with the actors registered with it, and
\* droid_visualization returns.
VisualizerClose ==
    /\ pc["visualizing"] = "V_idle"
    /\ pc' = [pc EXCEPT !["visualizing"] = "V_loop"]
    /\ actors' = <<>>
    /\ UNCHANGED <<cfg, reg, cnt, lock, dirty, bk, mq, inq, hand, snap, frame, fed, killed, counter>>

(* gaussian_mapping *)

\* The items the mapper may put on mapping_queue on its final call.
FinalItems == {"None", "state"}

\* The first loop runs the mapper (its non-final calls leave the modelled
\* state alone) until (tracking_finished + backend_finished) < 2 fails; then
\* while not finished and run: finished = gaussian_mapper(.., True), where
\* the call that returns True has put the final item on mapping_queue.
MappingDrain ==
    /\ pc["gaussian_mapping"] = "GM_loop"
    /\ ~StagesRunning(cfg, "gaussian_mapping")
    /\ IF RunFlag(cfg, "gaussian_mapping")
       THEN \E item \in FinalItems : mq' = Append(mq, item)
       ELSE mq' = mq
    /\ pc' = [pc EXCEPT !["gaussian_mapping"] = "GM_fin"]
    /\ UNCHANGED <<cfg, reg, cnt, lock, dirty, bk, inq, hand, snap, actors, frame, fed, killed, counter>>

\* self.gaussian_mapping_finished += 1
MappingFinished ==
    /\ pc["gaussian_mapping"] = "GM_fin"
    /\ cnt' = [cnt EXCEPT !.gaussian_mapping_finished = @ + 1]
    /\ pc' = [pc EXCEPT !["gaussian_mapping"] = "GM_wait"]
    /\ UNCHANGED <<cfg, reg, lock, dirty, bk, mq, inq, hand, snap, actors, frame, fed, killed, counter>>

\* The wait of gaussian_mapping left without looking at the flag.
GuiGateOpen(mapping_visualizing_finished) == TRUE

\* The exit of "while self.mapping_visualizing_finished < 1: pass".
GuiGate(mapping_visualizing_finished) == ~(mapping_visualizing_finished < 1)

\* while self.mapping_visualizing_finished < 1: pass, and the read of
\* all_finished for the "+= 1" that follows it.
MappingWaitGui ==
    /\ pc["gaussian_mapping"] = "GM_wait"
    /\ GuiGate(cnt.mapping_visualizing_finished)
    /\ reg' = [reg EXCEPT !["gaussian_mapping"] = cnt.all_finished]
    /\ pc' = [pc EXCEPT !["gaussian_mapping"] = "F_w"]
    /\ UNCHANGED <<cfg, cnt, lock, dirty, bk, mq, inq, hand, snap, actors, frame, fed, killed, counter>>

(* mapping_gui *)

\* The first loop of mapping_gui is left when its condition fails or when
\* slam_gui.run has returned a true value (the GUI was closed).
GuiLoop ==
    /\ pc["mapping_gui"] = "GUI_loop"
    /\ \E finished \in BOOLEAN : ~StagesRunning(cfg, "mapping_gui") \/ finished
    /\ pc' = [pc EXCEPT !["mapping_gui"] = "GUI_wait"]
    /\ UNCHANGED <<cfg, reg, cnt, lock, dirty, bk, mq, inq, hand, snap, actors, frame, fed, killed, counter>>

\* while self.gaussian_mapping_finished < 1: pass, then the drain of
\* q_main2vis and self.mapping_visualizing_finished += 1.
GuiFinished ==
    /\ pc["mapping_gui"] = "GUI_wait"
    /\ ~(cnt.gaussian_mapping_finished < 1)
    /\ cnt' = [cnt EXCEPT !.mapping_visualizing_finished = @ + 1]
    /\ pc' = [pc EXCEPT !["mapping_gui"] = "F_r"]
    /\ UNCHANGED <<cfg, reg, lock, dirty, bk, mq, inq, hand, snap, actors, frame, fed, killed, counter>>

(* SLAM.run and SLAM.terminate *)

\* Where run() continues after starting the processes, never waiting for
\* the mapping handoff.
AfterStartNoHandoff(c) == "M_waitfin"

\* Where run() continues after starting the processes: if self.cfg.run_mapping
AfterStart(c) == IF c.run_mapping THEN "M_waitq" ELSE "M_waitfin"

\* The exit of the wait of run(), one finished worker short.
FinishedGateEarly(all_finished, num_running_thread) ==
    ~(all_finished + 1 < num_running_thread)

\* The exit of "while self.all_finished < self.num_running_thread: pass".
FinishedGate(all_finished, num_running_thread) ==
    ~(all_finished < num_running_thread)

\* self.num_running_thread[0] += len(processes)
RunSetNum ==
    /\ pc["main"] = "M_init"
    /\ cnt' = [cnt EXCEPT !.num_running_thread = @ + Len(Procs)]
    /\ pc' = [pc EXCEPT !["main"] = "M_start"]
    /\ UNCHANGED <<cfg, reg, lock, dirty, bk, mq, inq, hand, snap, actors, frame, fed, killed, counter>>

\* for p in processes: p.start()
RunStart ==
    /\ pc["main"] = "M_start"
    /\ pc' = [p \in Workers \cup {"main"} |->
                 IF p = "main" THEN AfterStart(cfg) ELSE "T_r"]
    /\ hand' = IF cfg.run_mapping THEN hand ELSE [hand EXCEPT !.last_state = "None"]
    /\ UNCHANGED <<cfg, reg, cnt, lock, dirty, bk, mq, inq, snap, actors, frame, fed, killed, counter>>

\* while self.mapping_queue.empty(): pass; a = self.mapping_queue.get()
RunGet ==
    /\ pc["main"] = "M_waitq"
    /\ mq # <<>>
    /\ hand' = [hand EXCEPT !.a = Head(mq), !.gets = @ + 1]
    /\ mq' = Tail(mq)
    /\ pc' = [pc EXCEPT !["main"] = "M_copy"]
    /\ UNCHANGED <<cfg, reg, cnt, lock, dirty, bk, inq, snap, actors, frame, fed, killed, counter>>

\* gaussian_mapper_last_state = None if a == "None" else clone_obj(a)
RunCopy ==
    /\ pc["main"] = "M_copy"
    /\ hand' = [hand EXCEPT !.last_state = IF hand.a = "None" THEN "None" ELSE "clone"]
    /\ pc' = [pc EXCEPT !["main"] = "M_del"]
    /\ UNCHANGED <<cfg, reg, cnt, lock, dirty, bk, mq, inq, snap, actors, frame, fed, killed, counter>>

\* del a
RunDel ==
    /\ pc["main"] = "M_del"
    /\ hand' = [hand EXCEPT !.a = "deleted"]
    /\ pc' = [pc EXCEPT !["main"] = "M_set"]
    /\ UNCHANGED <<cfg, reg, cnt, lock, dirty, bk, mq, inq, snap, actors, frame, fed, killed, counter>>

\* self.received_mapping.set()
RunSetReceived ==
    /\ pc["main"] = "M_set"
    /\ hand' = [hand EXCEPT !.received = TRUE]
    /\ pc' = [pc EXCEPT !["main"] = "M_waitfin"]
    /\ UNCHANGED <<cfg, reg, cnt, lock, dirty, bk, mq, inq, snap, actors, frame, fed, killed, counter>>

\* while self.all_finished < self.num_running_thread: pass, then the call
\* of terminate, which evaluates first if self.do_evaluate.
RunWaitFinished ==
    /\ pc["main"] = "M_waitfin"
    /\ FinishedGate(cnt.all_finished, cnt.num_running_thread)
    /\ pc' = [pc EXCEPT !["main"] = IF cfg.evaluate THEN "M_eval" ELSE "M_term"]
    /\ UNCHANGED <<cfg, reg, cnt, lock, dirty, bk, mq, inq, hand, snap, actors, frame, fed, killed, counter>>

\* self.evaluate(stream, ...): get_trajectories reads video.counter and
\* video.timestamp, the evaluation reads the poses.
TerminateEvaluate ==
    /\ pc["main"] = "M_eval"
    /\ hand' = [hand EXCEPT !.evaluated = TRUE]
    /\ pc' = [pc EXCEPT !["main"] = "M_term"]
    /\ UNCHANGED <<cfg, reg, cnt, lock, dirty, bk, mq, inq, snap, actors, frame, fed, killed, counter>>

\* The loop of terminate going through the processes from the last one.
LastProcess(terminated) == Procs[Len(Procs) - Len(terminated)]

\* The process "for i, p in enumerate(processes)" handles after those
\* already terminated.
NextProcess(terminated) == Procs[Len(terminated) + 1]

\* One iteration of "for p in processes: p.terminate(); p.join()".
TerminateProcess ==
    /\ pc["main"] = "M_term"
    /\ LET w == NextProcess(killed) IN
       /\ pc' = [pc EXCEPT ![w] = IF @ = "done" THEN "done" ELSE "killed",
                           !["main"] = IF Len(killed) + 1 = Len(Procs)
                                       THEN "M_done" ELSE "M_term"]
       /\ killed' = Append(killed, w)
       /\ lock' = IF lock = w THEN "free" ELSE lock
    /\ UNCHANGED <<cfg, reg, cnt, dirty, bk, mq, inq, hand, snap, actors, frame, fed, counter>>

RunNext ==
    \/ \E w \in Workers : TrigRead(w)
    \/ \E w \in Workers : TrigWrite(w)
    \/ \E w \in Workers : FinRead(w)
    \/ \E w \in Workers : FinWrite(w)
    \/ ShowStreamLoop
    \/ ShowStreamLock
    \/ ShowStreamRead
    \/ TrackingBarrier
    \/ TrackingFrame
    \/ BackendLoop
    \/ BackendCall
    \/ RefineLock
    \/ RefineRead
    \/ RefinePass
    \/ BackendFinished
    \/ VisualizingLoop
    \/ AnimationLock
    \/ AnimationSnapshot
    \/ AnimationClear
    \/ AnimationDraw
    \/ KeyCallback
    \/ VisualizerClose
    \/ MappingDrain
    \/ MappingFinished
    \/ MappingWaitGui
    \/ GuiLoop
    \/ GuiFinished
    \/ RunSetNum
    \/ RunStart
    \/ RunGet
    \/ RunCopy
    \/ RunDel
    \/ RunSetReceived
    \/ RunWaitFinished
    \/ TerminateEvaluate
    \/ TerminateProcess

----------------------------------------------------------------------------
(* Construction of the system on drawn configurations                      *)

Modes == {"mono", "rgbd", "prgbd", "stereo"}

RefinementIters == {0 - 1, 0, 1}

\* The configurations a SLAM object is constructed from.
CtorConfigs ==
    {[BaseCfg EXCEPT !.mode = md, !.optimize_scales = os, !.opt_intr = oi,
                     !.run_mapping = rm, !.use_non_keyframes = nk,
                     !.refinement_iters = ri] :
        md \in Modes, os \in BOOLEAN, oi \in BOOLEAN, rm \in BOOLEAN,
        nk \in BOOLEAN, ri \in RefinementIters}

\* The state before SLAM(cfg) is evaluated.
CtorInit ==
    /\ cfg \in CtorConfigs
    /\ pc = [p \in Workers \cup {"main"} |-> IF p = "main" THEN "new" ELSE "off"]
    /\ reg = [w \in Workers |-> 0]
    /\ cnt = InitCnt
    /\ lock = "free"
    /\ dirty = {}
    /\ bk = InitBk
    /\ mq = <<>>
    /\ inq = 0
    /\ hand = InitHand
    /\ snap = {}
    /\ actors = <<>>
    /\ frame = 0
    /\ fed = <<>>
    /\ killed = <<>>
    /\ poses = InitPoses /\ disps = InitDisps
    /\ scales = InitScales /\ shifts = InitShifts
    /\ counter = 0
    /\ ba = IdleCall

\* sanity_checks without its check of the refinement iterations.
SanityChecksNoRefinement(c) ==
    IF c.mode = "stereo" THEN "NotImplementedError"
    ELSE IF c.mode = "prgbd" /\ c.optimize_scales /\ c.opt_intr
         THEN "AssertionError"
    ELSE "ok"

\* sanity_checks: what it raises, or "ok".
SanityChecks(c) ==
    IF c.mode = "stereo" THEN "NotImplementedError"
    ELSE IF c.mode = "prgbd" /\ c.optimize_scales /\ c.opt_intr
         THEN "AssertionError"
    ELSE IF c.run_mapping /\ c.use_non_keyframes /\ ~(c.refinement_iters > 0)
         THEN "AssertionError"
    ELSE "ok"

\* SLAM.__init__: the counters are created at zero, the queues and the
\* stages are built, and the last statement is sanity_checks(); what it
\* raises leaves the constructor, so no object exists to call run() on.
Construct ==
    /\ pc["main"] = "new"
    /\ cnt' = InitCnt
    /\ mq' = <<>>
    /\ inq' = 0
    /\ pc' = [pc EXCEPT !["main"] = IF SanityChecks(cfg) = "ok"
                                    THEN "M_init" ELSE SanityChecks(cfg)]
    /\ UNCHANGED <<cfg, reg, lock, dirty, bk, hand, snap, actors, frame, fed, killed, counter>>

----------------------------------------------------------------------------
(* eval_ate on drawn trajectories                                          *)

\* The shapes of a trajectory array: the number of poses, then the length
\* of a pose vector.
Shapes == {<<n, d>> : n \in 0 .. MaxPoses, d \in {7, 8}}

EvIdle ==
    [pc |-> "idle", shape_est |-> <<0, 7>>, shape_gt |-> <<0, 7>>, n_ts |-> 0,
     dirs |-> {}, files |-> {}]

\* A call of eval_ate(traj_est, traj_gt, timestamps, save_dir).
EvInit ==
    \E se, sg \in Shapes, n \in 0 .. MaxPoses :
        ev = [EvIdle EXCEPT !.pc = "call", !.shape_est = se, !.shape_gt = sg,
                            !.n_ts = n]

\* The first assertion of eval_ate alone.
AssertsPassShapeOnly(e) == e.shape_est = e.shape_gt

\* The two assertions of eval_ate: equal shapes, and as many timestamps
\* as len(traj_est), the first entry of its shape.
AssertsPass(e) ==
    /\ e.shape_est = e.shape_gt
    /\ e.n_ts = e.shape_est[1]

\* eval_ate: the assertions; then the plot directory is made under
\* save_dir, trj_final.json is written and evaluate_evo writes its plots.
EvalAte ==
    /\ ev.pc = "call"
    /\ ev' = IF AssertsPass(ev)
             THEN [ev EXCEPT !.pc = "done", !.dirs = {"save_dir", "plots"},
                             !.files = {"trj_final.json", "evo"}]
             ELSE [ev EXCEPT !.pc = "AssertionError"]

----------------------------------------------------------------------------
(* Specifications *)

InitBA == BAInit /\ sc = ScIdle /\ RunIdle /\ ev = EvIdle

NextBA ==
    \/ BundleAdjustmentCall /\ UNCHANGED scVars /\ UNCHANGED runVars /\ UNCHANGED evVars
    \/ MoBAStep /\ UNCHANGED scVars /\ UNCHANGED runVars /\ UNCHANGED evVars
    \/ BAStep /\ UNCHANGED scVars /\ UNCHANGED runVars /\ UNCHANGED evVars
    \/ BAPriorStep /\ UNCHANGED scVars /\ UNCHANGED runVars /\ UNCHANGED evVars
    \/ BAPriorNoMotionStep /\ UNCHANGED scVars /\ UNCHANGED runVars /\ UNCHANGED evVars
    \/ BAStepFails /\ UNCHANGED scVars /\ UNCHANGED runVars /\ UNCHANGED evVars
    \/ BAReturn /\ UNCHANGED scVars /\ UNCHANGED runVars /\ UNCHANGED evVars
    \/ TrackingAppend /\ UNCHANGED scVars /\ UNCHANGED runVars /\ UNCHANGED evVars

SpecBA == InitBA /\ [][NextBA]_vars

InitScatter == BAInit /\ ScInit /\ RunIdle /\ ev = EvIdle

NextScatter ==
    \/ ScatterMat /\ UNCHANGED baVars /\ UNCHANGED runVars /\ UNCHANGED evVars
    \/ ScatterVec /\ UNCHANGED baVars /\ UNCHANGED runVars /\ UNCHANGED evVars
    \/ ScatterMatInplace /\ UNCHANGED baVars /\ UNCHANGED runVars /\ UNCHANGED evVars
    \/ ScatterVecInplace /\ UNCHANGED baVars /\ UNCHANGED runVars /\ UNCHANGED evVars

SpecScatter == InitScatter /\ [][NextScatter]_vars

InitRun == RunInit /\ sc = ScIdle /\ ev = EvIdle

NextRun == RunNext /\ UNCHANGED <<storeVars, ba, sc, ev>>

SpecRun == InitRun /\ [][NextRun]_vars

InitCtor == CtorInit /\ sc = ScIdle /\ ev = EvIdle

\* The constructor, and of run() the statements up to the start of the
\* worker processes.
NextCtor ==
    \/ Construct /\ UNCHANGED <<storeVars, ba, sc, ev>>
    \/ RunSetNum /\ UNCHANGED <<storeVars, ba, sc, ev>>
    \/ RunStart /\ UNCHANGED <<storeVars, ba, sc, ev>>

SpecCtor == InitCtor /\ [][NextCtor]_vars

InitEval == BAInit /\ sc = ScIdle /\ RunIdle /\ EvInit

NextEval == EvalAte /\ UNCHANGED baVars /\ UNCHANGED scVars /\ UNCHANGED runVars

SpecEval == InitEval /\ [][NextEval]_vars

\* The streams and bounds t_start, t_stop the tracking worker is run on:
\* every sequence of at most TrackLen timestamps, in any order.
TrackStreams == UNION {[1 .. n -> 0 .. MaxStamp] : n \in 0 .. TrackLen}

TrackConfigs ==
    {[BaseCfg EXCEPT !.stream = s, !.t_start = a, !.t_stop_set = b, !.t_stop = t] :
        s \in TrackStreams, a \in 0 .. MaxStamp,
        b \in {TRUE}, t \in 0 .. MaxStamp}
    \cup
    {[BaseCfg EXCEPT !.stream = s, !.t_start = a] :
        s \in TrackStreams, a \in 0 .. MaxStamp}

\* The tracking worker at its start barrier, the six workers started and
\* past their start increment, run() in its wait, for a configuration of
\* configs.
StartedInit(configs) ==
    /\ cfg \in configs
    /\ pc = [p \in Workers \cup {"main"} |->
                IF p = "main" THEN AfterStart(cfg) ELSE Body(p)]
    /\ reg = [w \in Workers |-> 0]
    /\ cnt = [InitCnt EXCEPT !.num_running_thread = Len(Procs),
                             !.all_trigered = Len(Procs)]
    /\ lock = "free"
    /\ dirty = {}
    /\ bk = InitBk
    /\ mq = <<>>
    /\ inq = 0
    /\ hand = [InitHand EXCEPT !.last_state = "None"]
    /\ snap = {}
    /\ actors = <<>>
    /\ frame = 0
    /\ fed = <<>>
    /\ killed = <<>>
    /\ poses = InitPoses /\ disps = InitDisps
    /\ scales = InitScales /\ shifts = InitShifts
    /\ counter = 0
    /\ ba = IdleCall

TrackInit == StartedInit(TrackConfigs)

InitTrack == TrackInit /\ sc = ScIdle /\ ev = EvIdle

\* The tracking worker alone, from its barrier to its last statement.
NextTrack ==
    \/ TrackingBarrier /\ UNCHANGED <<storeVars, ba, sc, ev>>
    \/ TrackingFrame /\ UNCHANGED <<storeVars, ba, sc, ev>>
    \/ FinRead("tracking") /\ UNCHANGED <<storeVars, ba, sc, ev>>
    \/ FinWrite("tracking") /\ UNCHANGED <<storeVars, ba, sc, ev>>

SpecTrack == InitTrack /\ [][NextTrack]_vars

\* A run with the backend and the visualizer on a stream of VisLen frames.
VisConfigs ==
    {[BaseCfg EXCEPT !.run_backend = TRUE, !.run_visualization = TRUE,
                     !.stream = [i \in 1 .. VisLen |-> i - 1]]}

InitVis == StartedInit(VisConfigs) /\ sc = ScIdle /\ ev = EvIdle

\* The visualizer and the two workers that mark frames dirty.
NextVis ==
    \/ TrackingBarrier /\ UNCHANGED <<storeVars, ba, sc, ev>>
    \/ TrackingFrame /\ UNCHANGED <<storeVars, ba, sc, ev>>
    \/ BackendLoop /\ UNCHANGED <<storeVars, ba, sc, ev>>
    \/ BackendCall /\ UNCHANGED <<storeVars, ba, sc, ev>>
    \/ RefineLock /\ UNCHANGED <<storeVars, ba, sc, ev>>
    \/ RefineRead /\ UNCHANGED <<storeVars, ba, sc, ev>>
    \/ RefinePass /\ UNCHANGED <<storeVars, ba, sc, ev>>
    \/ BackendFinished /\ UNCHANGED <<storeVars, ba, sc, ev>>
    \/ VisualizingLoop /\ UNCHANGED <<storeVars, ba, sc, ev>>
    \/ AnimationLock /\ UNCHANGED <<storeVars, ba, sc, ev>>
    \/ AnimationSnapshot /\ UNCHANGED <<storeVars, ba, sc, ev>>
    \/ AnimationClear /\ UNCHANGED <<storeVars, ba, sc, ev>>
    \/ AnimationDraw /\ UNCHANGED <<storeVars, ba, sc, ev>>
    \/ KeyCallback /\ UNCHANGED <<storeVars, ba, sc, ev>>
    \/ VisualizerClose /\ UNCHANGED <<storeVars, ba, sc, ev>>

SpecVis == InitVis /\ [][NextVis]_vars

(* torch_intersect1d and the non-keyframe timestamps of evaluate *)

\* The elements of a finite set of integers in ascending order.
RECURSIVE Ascending(_)
Ascending(S) ==
    IF S = {} THEN <<>>
    ELSE LET m == CHOOSE x \in S : \A y \in S : x <= y
         IN  <<m>> \o Ascending(S \ {m})

\* torch.unique(x, return_counts=True, return_inverse=True) of a 1-D
\* tensor: the distinct values in ascending order, for every element of x
\* the position of its value among them, and the count of every value.
TorchUnique(x) ==
    LET u == Ascending({x[i] : i \in DOMAIN x})
    IN  [u |-> u,
         inv |-> [i \in DOMAIN x |-> CHOOSE j \in DOMAIN u : u[j] = x[i]],
         cnt |-> [j \in DOMAIN u |->
                     Cardinality({i \in DOMAIN x : x[i] = u[j]})]]

\* mask.nonzero()[..., 0]: the positions where the mask holds, ascending.
Nonzero(mask) == Ascending({i \in DOMAIN mask : mask[i]})

\* t[inds]: the elements of t at the positions inds, in the order of inds.
Gather(t, inds) == [k \in DOMAIN inds |-> t[inds[k]]]

\* torch_intersect1d with every element of t2 taken as exclusive to t2.
TorchIntersect1dAll(t1, t2) ==
    LET num_t1 == Len(t1)
        cat == t1 \o t2
        un == TorchUnique(cat)
        cnt_12 == [i \in DOMAIN cat |-> un.cnt[un.inv[i]]]
        cnt_t1 == SubSeq(cnt_12, 1, num_t1)
        cnt_t2 == SubSeq(cnt_12, num_t1 + 1, Len(cat))
        m_t1 == [i \in DOMAIN cnt_t1 |-> cnt_t1[i] = 2]
        inds_t1 == Nonzero(m_t1)
        inds_t1_exclusive == Nonzero([i \in DOMAIN m_t1 |-> ~m_t1[i]])
        inds_t2_exclusive == Nonzero([i \in DOMAIN cnt_t2 |-> cnt_t2[i] >= 1])
    IN  [intersection |-> Gather(t1, inds_t1),
         t1_exclusive |-> Gather(t1, inds_t1_exclusive),
         t2_exclusive |-> Gather(t2, inds_t2_exclusive)]

\* torch_intersect1d(t1, t2): the counts of unique(cat(t1, t2)) are spread
\* back over the elements; an element of t1 with count 2 is in the
\* intersection, the other elements of t1 are exclusive to t1, and an
\* element of t2 with count 1 is exclusive to t2.
TorchIntersect1d(t1, t2) ==
    LET num_t1 == Len(t1)
        cat == t1 \o t2
        un == TorchUnique(cat)
        cnt_12 == [i \in DOMAIN cat |-> un.cnt[un.inv[i]]]
        cnt_t1 == SubSeq(cnt_12, 1, num_t1)
        cnt_t2 == SubSeq(cnt_12, num_t1 + 1, Len(cat))
        m_t1 == [i \in DOMAIN cnt_t1 |-> cnt_t1[i] = 2]
        inds_t1 == Nonzero(m_t1)
        inds_t1_exclusive == Nonzero([i \in DOMAIN m_t1 |-> ~m_t1[i]])
        inds_t2_exclusive == Nonzero([i \in DOMAIN cnt_t2 |-> cnt_t2[i] = 1])
    IN  [intersection |-> Gather(t1, inds_t1),
         t1_exclusive |-> Gather(t1, inds_t1_exclusive),
         t2_exclusive |-> Gather(t2, inds_t2_exclusive)]

\* evaluate at the rendering evaluation: the keyframe timestamps and the
\* timestamps of the whole trajectory that get_trajectories returned, any
\* two sequences of integer timestamps.
EvRenderInit ==
    \E kf, ts \in TrackStreams :
        ev = [pc |-> "render", kf_tstamps |-> kf, tstamps |-> ts,
              result |-> [intersection |-> <<>>, t1_exclusive |-> <<>>,
                          t2_exclusive |-> <<>>],
              nonkf_tstamps |-> <<>>]

\* evaluate: torch_intersect1d(kf_tstamps, tstamps), of which the third
\* result is kept as nonkf_tstamps.
EvaluateNonKeyframes ==
    /\ ev.pc = "render"
    /\ LET r == TorchIntersect1d(ev.kf_tstamps, ev.tstamps)
       IN  ev' = [ev EXCEPT !.pc = "rendered", !.result = r,
                            !.nonkf_tstamps = r.t2_exclusive]

InitIntersect == BAInit /\ sc = ScIdle /\ RunIdle /\ EvRenderInit

NextIntersect ==
    EvaluateNonKeyframes /\ UNCHANGED baVars /\ UNCHANGED scVars /\ UNCHANGED runVars

SpecIntersect == InitIntersect /\ [][NextIntersect]_vars

----------------------------------------------------------------------------
(* Claims on the bundle adjustment engine (SpecBA)                          *)

\* A step of the loop of bundle_adjustment: one variant call and the clamp.
BAIterationStep == ba.pc = "loop" /\ ba'.it = ba.it + 1

\* C1: after every iteration of the loop of bundle_adjustment every
\* disparity of every keyframe is at least the positive floor 0.001.
C1_DisparityPositivity ==
    ba.it > 0 => \A k \in Frames : disps[k] >= DispFloor

\* C2: one iteration of a pose-updating variant leaves the pose of every
\* frame with index < max(t0, 1) unchanged; frame 0 is never changed.
C2_GaugeFixing ==
    [][BAIterationStep =>
         \A k \in Frames : (k < Max(ba.t0, 1)) => poses'[k] = poses[k]]_vars

\* C2 witness: a pose-updating variant has iterated over the window [2, 3)
\* and moved the pose of frame 2, frames 0 and 1 being held.
C2_Witness ==
    /\ ba.it > 0 /\ ~ba.structure_only /\ ba.t0 = 2 /\ ba.t1 = 3
    /\ Variant(ba) \in {"MoBA", "BA", "BA_prior"}
    /\ poses[2] # InitPoses[2] /\ poses[1] = InitPoses[1] /\ poses[0] = InitPoses[0]

\* C3: an iteration with window bound t1 changes no pose, disparity, scale
\* or shift at an index >= t1; so with t1 <= counter every index it changes
\* is below counter, where the tracking stage never appends.
C3_WriteRange ==
    [][BAIterationStep =>
         /\ \A k \in Frames : (k >= ba.t1) =>
               /\ poses'[k] = poses[k] /\ disps'[k] = disps[k]
               /\ scales'[k] = scales[k] /\ shifts'[k] = shifts[k]
         /\ (ba.t1 <= counter) =>
               \A k \in Frames :
                  (\/ poses'[k] # poses[k] \/ disps'[k] # disps[k]
                   \/ scales'[k] # scales[k] \/ shifts'[k] # shifts[k])
                  => k < counter]_vars

\* C3 witness: BA_prior has iterated over [0, 2) with three valid frames
\* and changed pose, disparity, scale and shift of frame 1 but not of frame 2.
C3_Witness ==
    /\ ba.it > 0 /\ Variant(ba) = "BA_prior" /\ ba.t1 = 2 /\ counter = 3
    /\ poses[1] # InitPoses[1] /\ scales[1] # InitScales[1]
    /\ shifts[1] # InitShifts[1] /\ disps[1] < DispFloor
    /\ poses[2] = InitPoses[2] /\ scales[2] = InitScales[2]
    /\ shifts[2] = InitShifts[2]

----------------------------------------------------------------------------
(* Claims on the sparse accumulator (SpecScatter)                           *)

\* The positions of the entries of (ii, jj) that lie in [0, n) x [0, m).
KeptMat == 
    LET InRange(e) == /\ sc.ii[e] >= 0 /\ sc.ii[e] < sc.n
                      /\ sc.jj[e] >= 0 /\ sc.jj[e] < sc.m
    IN SelectSeq([e \in 1 .. Len(sc.ii) |-> e], InRange)

\* The positions of the entries of ii that lie in [0, n).
KeptVec ==
    LET InRange(e) == sc.ii[e] >= 0 /\ sc.ii[e] < sc.n
    IN SelectSeq([e \in 1 .. Len(sc.ii) |-> e], InRange)

Pick(s, keep) == [k \in 1 .. Len(keep) |-> s[keep[k]]]

\* C10: safe_scatter_add_mat and safe_scatter_add_vec raise no error and
\* return the result of the same input without its negative and its
\* out-of-range entries; block (i, j) is the sum of the blocks of the
\* entries with index pair (i, j), zero when there is none.
C10_NodePruning ==
    /\ sc.pc \in {"mat", "vec"} =>
         /\ sc.mat.ok
         /\ sc.mat = safe_scatter_add_mat(Pick(sc.A, KeptMat), Pick(sc.ii, KeptMat),
                                          Pick(sc.jj, KeptMat), sc.n, sc.m)
         /\ \A i \in 0 .. (sc.n - 1), j \in 0 .. (sc.m - 1) :
               sc.mat.val[i * sc.m + j] =
                  SumOver(sc.A, {e \in DOMAIN sc.ii : sc.ii[e] = i /\ sc.jj[e] = j})
    /\ sc.pc = "vec" =>
         /\ sc.vec.ok
         /\ sc.vec = safe_scatter_add_vec(Pick(sc.A, KeptVec), Pick(sc.ii, KeptVec), sc.n)
         /\ \A i \in 0 .. (sc.n - 1) :
               sc.vec.val[i] = SumOver(sc.A, {e \in DOMAIN sc.ii : sc.ii[e] = i})

\* C10 witness: both accumulators have run on two entries, the first with a
\* source index >= n, the second in range and accumulated.
C10_Witness ==
    /\ sc.pc = "vec" /\ Len(sc.ii) = 2 /\ sc.n = 1 /\ sc.m = 2
    /\ sc.ii[1] >= sc.n /\ sc.jj[1] = 0
    /\ sc.ii[2] = 0 /\ sc.jj[2] = 1
    /\ sc.mat.val[1] = sc.A[2] /\ sc.mat.val[0] = 0
    /\ sc.vec.val[0] = sc.A[2]


----------------------------------------------------------------------------
(* Claims on the orchestration (SpecRun)                                    *)

\* A worker has executed its "all_trigered += 1".
Triggered(w) == pc[w] \notin {"off", "T_r", "T_w"}

\* A worker has executed its "all_finished += 1".
Finished(w) == pc[w] = "done"

\* The orchestrator has left the all_finished wait and is in terminate.
InTerminate == pc["main"] \in {"M_eval", "M_term", "M_done"}

\* C4: in every reachable state all_trigered is the number of workers that
\* have made their start increment, all_finished is the number of workers
\* that have made their completion increment, and
\* all_finished <= all_trigered <= num_running_thread.
C4_LifecycleCounters ==
    /\ cnt.all_trigered = Cardinality({w \in Workers : Triggered(w)})
    /\ cnt.all_finished = Cardinality({w \in Workers : Finished(w)})
    /\ cnt.all_finished <= cnt.all_trigered
    /\ cnt.all_trigered <= cnt.num_running_thread \/ pc["main"] = "M_init"

\* C5: whenever the orchestrator is in terminate, or any process has been
\* terminated, all_finished >= num_running_thread and every one of the six
\* workers has made its completion increment; no worker is ever terminated
\* before that increment.
C5_ShutdownGate ==
    /\ (InTerminate \/ killed # <<>>) =>
           /\ cnt.all_finished >= cnt.num_running_thread
           /\ cnt.num_running_thread = Len(Procs)
           /\ \A w \in Workers : Finished(w)
    /\ \A w \in Workers : pc[w] # "killed"

C5_Witness ==
    /\ pc["main"] = "M_term"
    /\ Len(killed) = 3
    /\ cnt.all_finished = Len(Procs)
    /\ \A w \in Workers : Finished(w)

\* C6: the backend worker is about to run BA in a cycle only if a backend
\* instance exists and no sample above the high-water mark has been taken,
\* while a backend existed, in this cycle or in an earlier one that no
\* cycle with a sample at or below the low-water mark has followed.
C6_RamBackpressure ==
    pc["global_ba"] = "G_ba" => bk.exists /\ ~bk.tripped

\* C7 (as stated): in every run with the backend enabled, once
\* backend_finished is set the two refinement passes have been made.
C7_FinalRefinement ==
    (cfg.run_backend /\ cnt.backend_finished >= 1) => bk.passes = RefinePasses

\* C7 (amended): refinement passes are made only after tracking_finished is
\* set, over [0, t_end) with t_end the valid-frame counter read under the
\* store lock; when backend_finished is set the backend is released, and
\* the number of passes made is two if a backend instance existed when the
\* cycle loop was left and do_refinement is set, and none otherwise.
C7_FinalRefinementAmended ==
    /\ pc["global_ba"] = "G_read" => lock = "global_ba"
    /\ (pc["global_ba"] = "G_pass" \/ bk.passes > 0) =>
           /\ cfg.run_backend
           /\ cnt.tracking_finished >= 1
           /\ bk.t_end = counter
           /\ bk.passes <= RefinePasses
    /\ (bk.passes > 0 /\ bk.passes < RefinePasses) =>
           (bk.exists /\ cnt.backend_finished = 0)
    /\ (cfg.run_backend /\ cnt.backend_finished >= 1) =>
           /\ ~bk.exists
           /\ bk.passes = IF bk.at_exit = "backend" /\ cfg.do_refinement
                          THEN RefinePasses ELSE 0

C7_Witness ==
    /\ cfg.run_backend
    /\ cnt.backend_finished = 1
    /\ bk.at_exit = "backend"
    /\ bk.passes = RefinePasses
    /\ bk.last = "dense_ba"
    /\ bk.t_end = 1
    /\ bk.sample = 2

\* C8: with run_mapping set the orchestrator takes exactly one item from
\* mapping_queue, makes its copy (None for the "None" sentinel, a clone
\* otherwise) before it discards the received object, sets received_mapping
\* only after the copy exists, and is in the all_finished wait or in
\* terminate only after the item has been received.
C8_MappingHandoff ==
    /\ hand.gets <= 1
    /\ ~cfg.run_mapping => hand.gets = 0 /\ ~hand.received
    /\ (cfg.run_mapping /\ (pc["main"] = "M_waitfin" \/ InTerminate \/ killed # <<>>)) =>
           hand.gets = 1 /\ hand.received
    /\ pc["main"] = "M_del" =>
           hand.last_state = IF hand.a = "None" THEN "None" ELSE "clone"
    /\ hand.a = "deleted" => hand.last_state \in {"None", "clone"}
    /\ hand.received => hand.a = "deleted" /\ hand.gets = 1

C8_Witness ==
    /\ cfg.run_mapping
    /\ pc["main"] = "M_done"
    /\ hand.gets = 1
    /\ hand.received
    /\ hand.last_state = "clone"
    /\ mq = <<>>

\* The statement a process is about to execute reads or writes the
\* counter, the poses, the disparities, the dirty flags or the uncertainty
\* of the keyframe store.
AccessesStore(p) ==
    pc[p] \in {"S_read", "G_read", "V_snap", "V_clear", "V_draw", "M_eval"}

\* C9: every process that is about to read or write the store's counter or
\* its arrays holds the store's lock.
C9_LockDiscipline ==
    \A p \in Workers \cup {"main"} : AccessesStore(p) => lock = p

-----------------------------------------------------------------------------
(* Claims on the solve fallback, the variants and their write sets (SpecBA) *)

\* The frames the store held when the call started; the tracking stage
\* appends behind them.
CallFrames == 0 .. (NFrames - 2)

\* C11: an iteration of the motion-only or of the joint variant never
\* writes a NaN or an infinity into a pose or a disparity, and when the
\* result of the Cholesky solver holds a non-finite value the update that
\* is applied is the finite result of the LU solver or zero.
C11_FallbackCorrectness ==
    (ba.it > 0 /\ ba.ran \subseteq {"MoBA", "BA_joint"}) =>
        /\ \A k \in Frames : IsFinite(poses[k]) /\ IsFinite(disps[k])
        /\ ("MoBA" \in ba.ran /\ ~IsFinite(ba.chol)) =>
               /\ IsFinite(MoBASolve(ba.chol, ba.lu))
               /\ MoBASolve(ba.chol, ba.lu) \in {0, ba.lu}

\* The tracking stage has appended frame k since the call started.
Appended(k) == k = NFrames - 1 /\ counter = NFrames

\* C12: motion-only changes poses only; structure-only changes disparities
\* only; joint changes poses and disparities but no scale or shift;
\* prior-structure-only changes disparities, scales and shifts but no pose;
\* no variant changes the intrinsics, the targets or the prior disparities.
C12_WriteSets ==
    LET DispsKept == \A k \in Frames : disps[k] = InitDisps[k] \/ Appended(k)
        PriorKept == scales = InitScales /\ shifts = InitShifts
    IN  /\ ba.ran \subseteq {"MoBA"} => DispsKept /\ PriorKept
        /\ ba.ran \subseteq {"BA_structure_only"} => poses = InitPoses /\ PriorKept
        /\ ba.ran \subseteq {"BA_joint"} => PriorKept
        /\ ba.ran \subseteq {"BA_prior_no_motion"} => poses = InitPoses
        /\ ba.pc # "idle" =>
               /\ ba.intrinsics = InitIntrinsics
               /\ ba.target = InitTarget(ba.ii)
               /\ ba.disps_sens = InitDispsSens(ba.has_sens)

\* C12 witness: the structure-only variant has iterated twice over [1, 3)
\* and moved the disparities of frames 1 and 2, every pose, scale and shift
\* being as before the call.
C12_Witness ==
    /\ ba.ran = {"BA_structure_only"} /\ ba.t0 = 1 /\ ba.t1 = 3 /\ ba.it = 2
    /\ disps[1] = InitDisps[1] + 2 /\ disps[2] = InitDisps[2] + 2
    /\ poses = InitPoses /\ scales = InitScales /\ shifts = InitShifts

\* C13: for the joint, structure-only, prior-joint and prior-structure-only
\* variants and every edge set, a frame with index < max(t0, 1) has neither
\* its pose nor its disparity nor its scale or shift changed, even when it
\* is the source node of an edge.
C13_FixedFramesWhole ==
    (ba.ran # {} /\ "MoBA" \notin ba.ran) =>
        \A k \in CallFrames : (k < Max(ba.t0, 1)) =>
            /\ poses[k] = InitPoses[k] /\ disps[k] = InitDisps[k]
            /\ scales[k] = InitScales[k] /\ shifts[k] = InitShifts[k]

-----------------------------------------------------------------------------
(* Claims on the construction of the system (SpecCtor)                      *)

\* The configuration conflicts: mode "stereo"; mode "prgbd" with both the
\* scale and the intrinsics optimization; mapping on non-keyframes with no
\* refinement iteration.
ConfigConflict(c) ==
    \/ c.mode = "stereo"
    \/ c.mode = "prgbd" /\ c.optimize_scales /\ c.opt_intr
    \/ c.run_mapping /\ c.use_non_keyframes /\ c.refinement_iters <= 0

\* C14: with a conflicting configuration the constructor raises an error:
\* run() is never reached, no worker process is started and no lifecycle
\* counter is incremented.
C14_ConflictsFatal ==
    ConfigConflict(cfg) =>
        /\ pc["main"] \in {"new", "NotImplementedError", "AssertionError"}
        /\ pc["main"] = "NotImplementedError" => cfg.mode = "stereo"
        /\ \A w \in Workers : pc[w] = "off"
        /\ cnt = InitCnt

\* C14 witness: the constructor has raised the assertion error on a
\* monocular configuration that maps non-keyframes without refinement.
C14_Witness ==
    /\ cfg.mode = "mono" /\ cfg.run_mapping /\ cfg.use_non_keyframes
    /\ cfg.refinement_iters = 0
    /\ pc["main"] = "AssertionError"
    /\ \A w \in Workers : pc[w] = "off"
    /\ cnt = InitCnt

\* The variant the flags of a call stand for.
ExpectedVariant(c) ==
    IF c.motion_only THEN "MoBA"
    ELSE IF c.scale_prior /\ c.structure_only THEN "BA_prior_no_motion"
    ELSE IF c.scale_prior THEN "BA_prior"
    ELSE IF c.structure_only THEN "BA_structure_only"
    ELSE "BA_joint"

\* The call does not fail, every iteration it has made ran the variant its
\* flags stand for, it returns after exactly the requested iterations, and
\* with no iteration requested it leaves the shared arrays as they were.
RunsExpectedVariant ==
    /\ ba.pc # "failed"
    /\ ba.ran = IF ba.it > 0 THEN {ExpectedVariant(ba)} ELSE {}
    /\ ba.it + ba.iters = ba.requested
    /\ ba.pc = "done" => ba.it = ba.requested
    /\ ba.requested = 0 =>
           /\ poses = InitPoses /\ scales = InitScales /\ shifts = InitShifts
           /\ \A k \in Frames : disps[k] = InitDisps[k] \/ Appended(k)

\* C15: for every combination of motion_only, structure_only, scale_prior
\* other than motion_only with structure_only, bundle_adjustment runs
\* exactly one variant for all iters iterations: motion-only when
\* motion_only; prior-structure-only when scale_prior and structure_only;
\* prior-joint when scale_prior and neither; structure-only when
\* structure_only without scale_prior; joint otherwise; with iters = 0 no
\* shared array is changed.
C15_VariantSelection ==
    (ba.pc # "idle" /\ ~(ba.motion_only /\ ba.structure_only)) =>
        RunsExpectedVariant

\* C15 as amended: the same, for calls that supply prior disparities when
\* scale_prior is set and whose window [0, t1) holds at least one frame.
C15_VariantSelectionAmended ==
    (/\ ba.pc # "idle" /\ ~(ba.motion_only /\ ba.structure_only)
     /\ ba.scale_prior => ba.has_sens
     /\ ba.t1 >= 1) =>
        RunsExpectedVariant

\* C15 witness: a call with scale_prior and structure_only has returned
\* after two iterations, both of the prior-structure-only variant.
C15_Witness ==
    /\ ba.pc = "done" /\ ba.scale_prior /\ ba.structure_only /\ ~ba.motion_only
    /\ ba.requested = 2 /\ ba.it = 2
    /\ ba.ran = {"BA_prior_no_motion"}

-----------------------------------------------------------------------------
(* Claims on the trajectory evaluation (SpecEval)                           *)

\* C17: when the two trajectories differ in shape, or the number of
\* timestamps differs from the number of poses, eval_ate fails with an
\* assertion error before it creates any directory or writes any file.
C17_EvalAtePreconditions ==
    (/\ ev.pc \notin {"idle", "call"}
     /\ \/ ev.shape_est # ev.shape_gt
        \/ ev.n_ts # ev.shape_est[1]) =>
        /\ ev.pc = "AssertionError"
        /\ ev.dirs = {}
        /\ ev.files = {}

\* C17 witness: eval_ate has failed on two trajectories of two poses each
\* with a single timestamp, and no directory or file exists.
C17_Witness ==
    /\ ev.pc = "AssertionError"
    /\ ev.shape_est = <<2, 7>> /\ ev.shape_gt = <<2, 7>> /\ ev.n_ts = 1
    /\ ev.dirs = {} /\ ev.files = {}

-----------------------------------------------------------------------------
(* Claims on the solve chain of MoBA (SpecBA)                               *)

\* C18: in MoBA the LU solver is invoked if and only if the result of the
\* Cholesky solver holds a non-finite value, and the update is discarded
\* for a zero update if and only if both results hold a non-finite value;
\* the call goes on with its remaining iterations.
C18_SolveFallbackChain ==
    ("MoBA" \in ba.ran) =>
        /\ ba.lu_called <=> ~IsFinite(ba.chol)
        /\ (ba.lu_called /\ MoBASolve(ba.chol, ba.lu) # ba.lu)
               <=> (~IsFinite(ba.chol) /\ ~IsFinite(ba.lu))
        /\ ba.pc \in {"loop", "done"}

-----------------------------------------------------------------------------
(* Claims on the in-place accumulators (SpecScatter)                        *)

\* C19: safe_scatter_add_mat_inplace on a zeroed buffer of M * M blocks
\* gives the result of safe_scatter_add_mat(A, ii, jj, M, M), and
\* safe_scatter_add_vec_inplace on a zeroed buffer of M blocks that of
\* safe_scatter_add_vec(b, ii, M): an entry with a negative index or an
\* index >= M is dropped without error, and none is added to a block
\* other than its own.
C19_InplaceEquivalence ==
    /\ sc.pc \in {"mat_inplace", "vec_inplace"} =>
           /\ sc.H.ok
           /\ sc.H = safe_scatter_add_mat(sc.A, sc.ii, sc.jj, sc.n, sc.n)
    /\ sc.pc = "vec_inplace" =>
           /\ sc.v.ok
           /\ sc.v = safe_scatter_add_vec(sc.A, sc.ii, sc.n)

-----------------------------------------------------------------------------
(* Claims on the backend under memory pressure (SpecRun)                    *)

\* C20: while the backend worker cycles, the backend is Active (an
\* instance exists) or Suspended (none exists); it becomes Suspended only
\* by a sample above the high-water mark and Active again only by a sample
\* at or below the low-water mark; a sample in the band changes nothing;
\* one call of the safeguard makes at most one transition.  In terms of
\* the last sample: above the high-water mark the backend is Suspended, at
\* or below the low-water mark it is Active, a Suspended backend has been
\* tripped and not resumed, and an Active one was not deleted and created
\* anew by the same call.
C20_BackendStateMachine ==
    (cfg.run_backend /\ bk.at_exit = "running" /\ bk.sample # 0) =>
        /\ bk.sample > cfg.max_ram => ~bk.exists
        /\ bk.sample <= MinRam => bk.exists
        /\ ~bk.exists => bk.tripped /\ bk.sample > MinRam
        /\ bk.exists => ~bk.tripped

(* Mapping drain ordering *)

\* The mapping worker has left its first loop and made its drain calls.
Drained == pc["gaussian_mapping"] \in {"GM_fin", "GM_wait", "F_r", "F_w", "done"}

\* The backend worker is past its final refinement and its
\* "backend_finished += 1".
BackendPastRefinement ==
    /\ pc["global_ba"] \in {"F_r", "F_w", "done"}
    /\ bk.at_exit # "running"
    /\ DoRefine([bk EXCEPT !.exists = bk.at_exit = "backend"], cfg)
           => bk.passes = RefinePasses

GuiFlagSet == pc["mapping_gui"] \in {"F_r", "F_w", "done"}

\* The two waits: the GUI worker sets mapping_visualizing_finished only
\* with gaussian_mapping_finished >= 1, and the mapping worker goes on to
\* its "all_finished += 1" only with mapping_visualizing_finished >= 1.
WaitsRespected ==
    /\ GuiFlagSet <=> cnt.mapping_visualizing_finished >= 1
    /\ GuiFlagSet => cnt.gaussian_mapping_finished >= 1
    /\ pc["gaussian_mapping"] \in {"F_r", "F_w", "done"} =>
           cnt.mapping_visualizing_finished >= 1

\* C22 as stated: the two waits are respected, and the mapping worker has
\* made its completion increment (all_finished += 1) only if the mapping
\* GUI worker has made its completion increment.
C22_SpinWaitOrdering ==
    /\ WaitsRespected
    /\ Finished("gaussian_mapping") => Finished("mapping_gui")

\* C22 amended: the two waits are respected, and the mapping worker has
\* made its all_finished increment only if the mapping GUI worker has made
\* its mapping_visualizing_finished increment; the GUI worker's own
\* all_finished increment may come after the mapping worker's.
C22_SpinWaitOrderingAmended ==
    /\ WaitsRespected
    /\ Finished("gaussian_mapping") => GuiFlagSet

\* The mapping worker has made its all_finished increment after the GUI
\* worker, which ran its GUI, set its flag.
C22_Witness ==
    /\ RunFlag(cfg, "mapping_gui")
    /\ Finished("gaussian_mapping")
    /\ cnt.mapping_visualizing_finished = 1
    /\ cnt.gaussian_mapping_finished = 1

(* Start barrier *)

\* C23: the tracking worker has passed a frame to the frontend (or has
\* gone past the barrier at all) only if all_trigered >= num_running_thread
\* and every one of the six workers has made its start increment; and a
\* process has been started only with num_running_thread set to the number
\* of processes.
C23_StartBarrier ==
    /\ (fed # <<>> \/ frame > 0 \/ pc["tracking"] \in {"K_frame", "F_r", "F_w", "done"}) =>
           /\ cnt.all_trigered >= cnt.num_running_thread
           /\ \A w \in Workers : Triggered(w)
    /\ (\E w \in Workers : pc[w] # "off") => cnt.num_running_thread = Len(Procs)
    /\ Len(Procs) = 6

\* A frame has been passed to the frontend, the six start increments made.
C23_Witness ==
    /\ fed # <<>>
    /\ pc["tracking"] = "K_frame"
    /\ cnt.all_trigered = Len(Procs)

(* Shutdown liveness *)

\* Every worker has made its start increment.
AllTriggered == \A w \in Workers : Triggered(w)

\* C24: no reachable state has the tracking worker held at the start
\* barrier for good, that is with every start increment made and
\* all_trigered still below num_running_thread; from such a state no run
\* reaches all_finished = num_running_thread or the call of terminate.
C24_ShutdownLiveness ==
    ~(/\ pc["tracking"] = "K_barrier"
      /\ AllTriggered
      /\ cnt.all_trigered < cnt.num_running_thread)

(* Termination order *)

\* C25: a process has been terminated only after the evaluation, when it
\* is enabled, has run to completion (and it runs only when enabled); the
\* processes terminated and joined so far are a prefix of OpenCV Stream,
\* Frontend Tracking, Backend, Visualizing, Gaussian Mapping, Mapping GUI.
C25_TerminationOrder ==
    /\ killed # <<>> => (cfg.evaluate => hand.evaluated)
    /\ hand.evaluated => cfg.evaluate /\ pc["main"] \in {"M_term", "M_done"}
    /\ Len(killed) <= Len(Procs)
    /\ killed = SubSeq(<<"show_stream", "tracking", "global_ba", "visualizing",
                         "gaussian_mapping", "mapping_gui">>, 1, Len(killed))
    /\ pc["main"] = "M_done" <=> Len(killed) = Len(Procs)

\* The evaluation has run and the first four processes are terminated.
C25_Witness ==
    /\ cfg.evaluate
    /\ hand.evaluated
    /\ Len(killed) = 4
    /\ pc["main"] = "M_term"

(* Prior-structure-only active node set *)

\* A step of the loop that runs BA_prior_no_motion.
PriorNoMotionIteration ==
    /\ ba.pc = "loop" /\ Variant(ba) = "BA_prior_no_motion"
    /\ ba'.it = ba.it + 1

\* The nodes of the system sys that are the source of no edge.
AbsentNodes(sys) == sys.kx_exp \ {ba.ii[e] : e \in DOMAIN ba.ii}

\* The node set of the system is the union of the window and the edge
\* sources, the iteration writes no frame outside it, and the rows and
\* columns of the absent nodes are zero in the padded system.
ZeroPadded(sys) ==
    /\ sys.kx_exp = (ba.t0 .. (ba.t1 - 1)) \cup {ba.ii[e] : e \in DOMAIN ba.ii}
    /\ \A k \in ba.t0 .. (ba.t1 - 1) : k \in sys.kx_exp
    /\ \A k \in Frames \ sys.kx_exp :
           disps'[k] = disps[k] /\ scales'[k] = scales[k] /\ shifts'[k] = shifts[k]
    /\ \A k \in AbsentNodes(sys) :
           /\ sys.C_pad[k] = 0 /\ sys.w_pad[k] = 0
           /\ sys.Js[k] = 0 /\ sys.Jo[k] = 0
    /\ \A k \in sys.kx_exp \ AbsentNodes(sys) :
           sys.C_pad[k] > 0 /\ sys.Js[k] # 0 /\ sys.Jo[k] # 0

\* C26: in an iteration of BA_prior_no_motion the nodes updated are the
\* union of the window [t0, t1) and the edge sources, every frame of the
\* window among them; a node that is the source of no edge has zero rows
\* of C and w before damping and zero scale/shift Jacobian columns, and
\* its update is well-posed and comes from the prior term alone: its
\* damped C is positive and its right-hand side is that of the prior,
\* -alpha * r2.
C26_PriorOnlyNodes ==
    [][PriorNoMotionIteration =>
           LET sys == PriorNoMotionSystem(ba)
           IN  /\ ZeroPadded(sys)
               /\ \A k \in AbsentNodes(sys) :
                      sys.C[k] > 0 /\ sys.w[k] = 0 - Alpha * sys.r2[k]]_vars

\* What holds of an absent node instead: its damped C is alpha + eta, its
\* right-hand side is zero whatever its prior residual, and its disparity
\* is written back as it was.
AbsentNodeZeroRhs ==
    [][PriorNoMotionIteration =>
           LET sys == PriorNoMotionSystem(ba)
           IN  /\ ZeroPadded(sys)
               /\ \A k \in AbsentNodes(sys) :
                      /\ sys.C[k] = Alpha + InitEta[k] /\ sys.w[k] = 0
                      /\ disps'[k] = disps[k]]_vars

\* After one iteration over [0, 2) whose only edge leaves frame 0, the
\* absent frame 1 has its disparity as before and its prior residual.
AbsentNodeCase ==
    /\ ba.ran = {"BA_prior_no_motion"} /\ ba.it = 1
    /\ ba.t0 = 0 /\ ba.t1 = 2 /\ ba.ii = <<0>>
    /\ disps[1] = InitDisps[1] /\ disps[0] # InitDisps[0]
    /\ PriorResidual(ba, 1) # 0

(* Flag preconditions of bundle_adjustment *)

\* C27: a call with structure_only and motion_only both set, or with
\* scale_prior set and no prior disparities, has failed on an assertion
\* with no iteration run, and the poses, disparities, scales and shifts
\* are as before the call.
C27_FlagPreconditions ==
    (/\ ba.pc # "idle"
     /\ \/ ba.structure_only /\ ba.motion_only
        \/ ba.scale_prior /\ ~ba.has_sens) =>
        /\ ba.pc = "failed"
        /\ ba.it = 0 /\ ba.ran = {} /\ ba.iters = ba.requested
        /\ poses = InitPoses
        /\ \A k \in Frames : disps[k] = InitDisps[k] \/ Appended(k)
        /\ scales = InitScales /\ shifts = InitShifts

\* A call asking for two joint iterations with scale_prior and no prior
\* disparities has failed.
C27_Witness ==
    /\ ba.pc = "failed" /\ ba.scale_prior /\ ~ba.has_sens
    /\ ~ba.motion_only /\ ~ba.structure_only
    /\ ba.requested = 2 /\ ba.it = 0 /\ ba.t1 = 2

(* Stream gating in the tracking worker (SpecTrack) *)

Min(a, b) == IF a <= b THEN a ELSE b

\* The position of the first frame whose timestamp exceeds t_stop; one
\* past the end of the stream if there is none or t_stop is unset.
FirstPastStop(c) ==
    LET past == {i \in DOMAIN c.stream : c.t_stop_set /\ c.stream[i] > c.t_stop}
    IN  IF past = {} THEN Len(c.stream) + 1
        ELSE CHOOSE i \in past : \A j \in past : i <= j

\* The frames among the first n of the stream that are to be handed to
\* the frontend: those with timestamp >= t_start that come before the
\* first frame past t_stop, in stream order.
Handed(c, n) ==
    LET AtOrAfterStart(timestamp) == timestamp >= c.t_start
    IN  SelectSeq(SubSeq(c.stream, 1, Min(n, FirstPastStop(c) - 1)), AtOrAfterStart)

\* The tracking worker has left its loop over the stream.
TrackingLeftLoop == pc["tracking"] \in {"F_r", "F_w", "done"}

\* C28: the frames handed to the frontend so far are, in stream order,
\* the frames consumed so far with timestamp >= t_start that come before
\* the first frame whose timestamp exceeds t_stop; when the worker has left
\* its loop they are all such frames of the stream, and the loop was left
\* at the end of the stream or at a frame past t_stop; tracking_finished
\* is 1 from the moment the loop is left, before the all_finished
\* increment, and is 0 before.
C28_StreamGating ==
    /\ fed = Handed(cfg, frame)
    /\ TrackingLeftLoop =>
           /\ fed = Handed(cfg, Len(cfg.stream))
           /\ \/ frame = Len(cfg.stream)
              \/ /\ frame < Len(cfg.stream)
                 /\ cfg.t_stop_set /\ cfg.stream[frame + 1] > cfg.t_stop
    /\ cnt.tracking_finished = IF TrackingLeftLoop THEN 1 ELSE 0
    /\ pc["tracking"] \in {"F_r", "F_w"} => cnt.all_finished = 0
    /\ pc["tracking"] = "done" => cnt.all_finished = 1

\* The stream 1, 2, 1 with t_start = 0 and t_stop = 1: the first frame was
\* handed to the frontend, the loop ended at the second, the third was not
\* consumed, and the worker is done.
C28_Witness ==
    /\ cfg.stream = <<1, 2, 1>> /\ cfg.t_start = 0
    /\ cfg.t_stop_set /\ cfg.t_stop = 1
    /\ fed = <<1>> /\ frame = 1
    /\ pc["tracking"] = "done" /\ cnt.tracking_finished = 1

(* Visualizer dirty-flag protocol (SpecVis) *)

\* The steps of one animation callback.
SnapshotStep == pc["visualizing"] = "V_snap" /\ pc'["visualizing"] = "V_clear"
ClearStep == pc["visualizing"] = "V_clear" /\ pc'["visualizing"] = "V_draw"
DrawStep == pc["visualizing"] = "V_draw" /\ pc'["visualizing"] = "V_idle"

\* deactivate_update: every dirty flag is cleared by the key callback.
DeactivateStep ==
    pc["visualizing"] = "V_idle" /\ pc' = pc /\ dirty # {} /\ dirty' = {}

\* The callback takes its snapshot of the dirty set under the store lock,
\* clears the flags of exactly the snapshot, and redraws exactly the
\* snapshot: each of its frames then has one camera actor and one point
\* actor, the actors of the other frames are as before.
CallbackSteps ==
    /\ pc["visualizing"] = "V_snap" => lock = "visualizing"
    /\ SnapshotStep => snap' = dirty /\ dirty' = dirty
    /\ ClearStep => dirty' = dirty \ snap /\ snap' = snap
    /\ DrawStep =>
           /\ DOMAIN actors' = DOMAIN actors \cup snap
           /\ \A ix \in snap : actors'[ix] = <<1, 1>>
           /\ \A ix \in DOMAIN actors \ snap : actors'[ix] = actors[ix]
           /\ dirty' = dirty

\* C29 as stated: the callback steps are as above, and a dirty flag is
\* lost only by the clear of a callback that has the frame in its snapshot
\* and goes on to draw it: a frame marked dirty that is not in the
\* snapshot stays dirty, and no update that marks a frame dirty is lost
\* without being drawn.
C29_DirtyFlagProtocol ==
    [][/\ CallbackSteps
       /\ \A k \in dirty : k \notin dirty' => ClearStep /\ k \in snap]_vars

\* C29 amended: the same, except that deactivate_update clears the dirty
\* flag of every frame without drawing any.
C29_DirtyFlagProtocolAmended ==
    [][/\ CallbackSteps
       /\ \A k \in dirty :
              k \notin dirty' => (ClearStep /\ k \in snap) \/ DeactivateStep]_vars

\* A callback about to redraw frame 0, which already has its actors, while
\* frame 1, marked dirty by another process after the snapshot, is dirty
\* and outside the snapshot.
C29_Witness ==
    /\ pc["visualizing"] = "V_draw"
    /\ snap = {0}
    /\ 0 \in DOMAIN actors /\ actors[0] = <<1, 1>>
    /\ 1 \notin DOMAIN actors
    /\ 1 \in dirty

(* torch_intersect1d (SpecIntersect) *)

DuplicateFree(t) == \A i, j \in DOMAIN t : t[i] = t[j] => i = j

Elements(t) == {t[i] : i \in DOMAIN t}

\* The elements of t that are in S, in the order of t.
Kept(t, S) ==
    LET InS(x) == x \in S
    IN  SelectSeq(t, InS)

\* C30: on duplicate-free inputs t1, t2 torch_intersect1d returns the
\* elements of t1 that are in t2, the elements of t1 not in t2 and the
\* elements of t2 not in t1, each in its input order and pairwise
\* disjoint; the non-keyframe timestamps of evaluate are the timestamps of
\* the trajectory that are not keyframe timestamps.
C30_Intersect1d ==
    (/\ ev.pc = "rendered"
     /\ DuplicateFree(ev.kf_tstamps) /\ DuplicateFree(ev.tstamps)) =>
        LET t1 == ev.kf_tstamps
            t2 == ev.tstamps
            r == ev.result
        IN  /\ r.intersection = Kept(t1, Elements(t2))
            /\ r.t1_exclusive = Kept(t1, Elements(t1) \ Elements(t2))
            /\ r.t2_exclusive = Kept(t2, Elements(t2) \ Elements(t1))
            /\ Elements(r.intersection) \cap Elements(r.t1_exclusive) = {}
            /\ Elements(r.intersection) \cap Elements(r.t2_exclusive) = {}
            /\ Elements(r.t1_exclusive) \cap Elements(r.t2_exclusive) = {}
            /\ ev.nonkf_tstamps = Kept(t2, Elements(t2) \ Elements(t1))

\* C30 witness: keyframes <<2, 0>> out of the trajectory <<2, 1, 0>> give
\* the intersection <<2, 0>> in the order of the first input and the
\* non-keyframe timestamp 1.
C30_Witness ==
    /\ ev.pc = "rendered"
    /\ ev.kf_tstamps = <<2, 0>> /\ ev.tstamps = <<2, 1, 0>>
    /\ ev.result.intersection = <<2, 0>> /\ ev.result.t1_exclusive = <<>>
    /\ ev.nonkf_tstamps = <<1>>

====
